---- MODULE Spec2Model ----
(***************************************************************************)
(* keilog B-route reader (keilib/broute.py): the SK line-command driver    *)
(* WiSunRL7023, the Echonet-Lite frame codec DataFrame and the session     *)
(* state machine BrouteReader.                                             *)
(*                                                                         *)
(* A byte string is a sequence of one-character strings.  A byte >= 0x80   *)
(* is written as one of the tokens in HighBytes.  b'' (a read that timed   *)
(* out) is the empty sequence.                                             *)
(***************************************************************************)
EXTENDS Integers, Sequences, FiniteSets, TLC

VARIABLES
    pc,                 \* position of BrouteReader.run: "loop", "crashed", "stopped"
    stopEvent,          \* Worker.stopEvent
    state,              \* BrouteReader.state
    scan_retry,         \* BrouteReader.scan_retry
    join_retry,         \* BrouteReader.join_retry
    requests,           \* BrouteReader.requests: sequence of [epc, cycle, lasttime]
    lasttime_receive,   \* BrouteReader.lasttime_receive
    coefficient,        \* BrouteReader.coefficient
    unit,               \* BrouteReader.unit: the exponent e of the multiplier 10^e
    effective_digits,   \* BrouteReader.effective_digits
    record_que,         \* the bounded queue handed to BrouteReader
    blocked,            \* records _accept has yet to put: run() is inside put()
    serOpen,            \* WiSunRL7023.ser is an open serial port
    scanresult,         \* WiSunRL7023.scanresult: set of keys held
    cachefile,          \* the file scancache.json
    clock,              \* datetime.datetime.now().timestamp(), whole seconds
    hist,               \* history of the run, for stating properties
    arg_type,           \* the type of the driver an operation is applied on
    arg_length,         \* argument of the codec operation being applied
    arg_data,           \* argument of the codec operation being applied
    result              \* what it returned, once it has (done)

svars == <<pc, stopEvent, state, scan_retry, join_retry, requests,
           lasttime_receive, coefficient, unit, effective_digits, record_que,
           blocked, serOpen, scanresult, cachefile, clock, hist>>
cvars == <<arg_type, arg_length, arg_data, result>>
vars == <<pc, stopEvent, state, scan_retry, join_retry, requests,
          lasttime_receive, coefficient, unit, effective_digits, record_que,
          blocked, serOpen, scanresult, cachefile, clock, hist,
          arg_type, arg_length, arg_data, result>>

-----------------------------------------------------------------------------
(* Python helpers *)

Min(a, b) == IF a < b THEN a ELSE b
Max(a, b) == IF a > b THEN a ELSE b

\* s[a:b] for 0 <= a <= b: clamps to the end of s and never raises
Slice(s, a, b) ==
    IF a >= Len(s) \/ Min(b, Len(s)) <= a THEN <<>>
    ELSE SubSeq(s, a + 1, Min(b, Len(s)))

\* s[a:]
SliceFrom(s, a) == Slice(s, a, Len(s))

-----------------------------------------------------------------------------
(* Hex utilities *)

HexDigits == <<"0","1","2","3","4","5","6","7","8","9","A","B","C","D","E","F">>
HexChars == {HexDigits[i] : i \in 1..16}

HexVal(ch) == (CHOOSE i \in 1..16 : HexDigits[i] = ch) - 1

\* is_hex without the check of the length
is_hex_anylen(data, length) ==
    \A i \in 1..Len(data) : data[i] \in HexChars

\* is_hex(data, length=0)
is_hex(data, length) ==
    IF length # 0 /\ Len(data) # length THEN FALSE
    ELSE \A i \in 1..Len(data) : data[i] \in HexChars

RECURSIVE HexToInt(_)
\* int(s, 16) for a non-empty string of uppercase hex digits
HexToInt(s) ==
    IF Len(s) = 0 THEN 0
    ELSE HexToInt(SubSeq(s, 1, Len(s) - 1)) * 16 + HexVal(s[Len(s)])

\* int(s, 16) raises ValueError: used only on strings that passed is_hex,
\* for which the empty string is the one that does not parse
IntRaises(s) == Len(s) = 0 \/ ~is_hex(s, 0)

\* '{:02X}'.format(n)
Fmt02X(n) ==
    IF n < 256 THEN <<HexDigits[(n \div 16) + 1], HexDigits[(n % 16) + 1]>>
    ELSE <<HexDigits[(n \div 256) + 1], HexDigits[((n \div 16) % 16) + 1],
           HexDigits[(n % 16) + 1]>>

\* '{:04X}'.format(n) for n < 65536
Fmt04X(n) ==
    <<HexDigits[(n \div 4096) + 1], HexDigits[((n \div 256) % 16) + 1],
      HexDigits[((n \div 16) % 16) + 1], HexDigits[(n % 16) + 1]>>

-----------------------------------------------------------------------------
(* DataFrame: the Echonet-Lite frame codec.  properties is a Python dict:  *)
(* a sequence of <<epc, edt>> in insertion order, one entry per key.       *)

RECURSIVE DictSet(_, _, _)
\* d[key] = value
DictSet(d, key, value) ==
    IF d = <<>> THEN <<<<key, value>>>>
    ELSE IF d[1][1] = key THEN <<<<key, value>>>> \o Tail(d)
    ELSE <<d[1]>> \o DictSet(Tail(d), key, value)

NoFrame ==
    [valid |-> FALSE, ehd |-> <<>>, tid |-> <<>>, seoj |-> <<>>, deoj |-> <<>>,
     esv |-> <<>>, opc |-> <<>>, properties |-> <<>>]

RECURSIVE DecodeProperties(_, _, _, _)
\* the for loop of DataFrame.decode; raised when int(pdc, 16) raises ValueError
DecodeProperties(encoded_data, base, count, properties) ==
    IF count = 0 THEN [raised |-> FALSE, properties |-> properties]
    ELSE LET epc == Slice(encoded_data, base, base + 2)
             pdc == Slice(encoded_data, base + 2, base + 4)
         IN  IF IntRaises(pdc) THEN [raised |-> TRUE, properties |-> properties]
             ELSE LET int_pdc == HexToInt(pdc)
                      edt == Slice(encoded_data, base + 4, base + 4 + int_pdc * 2)
                  IN  DecodeProperties(encoded_data, base + 4 + int_pdc * 2,
                                       count - 1, DictSet(properties, epc, edt))

\* DataFrame.decode(length, encoded_data); NoFrame is the return value None
decode(length, encoded_data) ==
    IF Len(encoded_data) # HexToInt(length) * 2 THEN NoFrame
    ELSE IF ~is_hex(encoded_data, 0) THEN NoFrame
    ELSE LET opc == Slice(encoded_data, 22, 24)
         IN  IF IntRaises(opc) THEN NoFrame
             ELSE LET r == DecodeProperties(encoded_data, 24, HexToInt(opc), <<>>)
                  IN  IF r.raised THEN NoFrame
                      ELSE [valid |-> TRUE,
                            ehd |-> Slice(encoded_data, 0, 4),
                            tid |-> Slice(encoded_data, 4, 8),
                            seoj |-> Slice(encoded_data, 8, 14),
                            deoj |-> Slice(encoded_data, 14, 20),
                            esv |-> Slice(encoded_data, 20, 22),
                            opc |-> opc,
                            properties |-> r.properties]

RECURSIVE EncodeProperties_chars(_)
\* encode taking the length of a value in characters (len(edt) for len(edt) // 2)
EncodeProperties_chars(properties) ==
    IF properties = <<>> THEN <<>>
    ELSE properties[1][1] \o Fmt02X(Len(properties[1][2])) \o properties[1][2]
         \o EncodeProperties_chars(Tail(properties))

RECURSIVE EncodeProperties(_)
\* the for loop of DataFrame.encode
EncodeProperties(properties) ==
    IF properties = <<>> THEN <<>>
    ELSE properties[1][1] \o Fmt02X(Len(properties[1][2]) \div 2) \o properties[1][2]
         \o EncodeProperties(Tail(properties))

\* DataFrame.encode()
encode(df) ==
    df.ehd \o df.tid \o df.seoj \o df.deoj \o df.esv \o df.opc
    \o EncodeProperties(df.properties)

\* DataFrame.TID: the class attribute, never assigned after the class body
TID == 0

RECURSIVE RequestProperties(_, _)
\* the for loop of DataFrame.cmd_get_property
RequestProperties(epc_list, properties) ==
    IF epc_list = <<>> THEN properties
    ELSE RequestProperties(Tail(epc_list), DictSet(properties, Head(epc_list), <<>>))

\* the counter with the increment cls.TID = (cls.TID + 1) % 0xffff carried out
TIDAfter_inc(tid) == (tid + 1) % 65535

\* DataFrame.TID after a call of cmd_get_property that found it at tid: the
\* increment is commented out
TIDAfter(tid) == tid

\* cmd_get_property with the property count left at one
cmd_get_property_one(epc_list) ==
    [valid |-> TRUE,
     ehd |-> <<"1","0","8","1">>,
     tid |-> Fmt04X(TID),
     seoj |-> <<"0","5","F","F","0","1">>,
     deoj |-> <<"0","2","8","8","0","1">>,
     esv |-> <<"6","2">>,
     opc |-> Fmt02X(1),
     properties |-> RequestProperties(epc_list, <<>>)]

\* DataFrame.cmd_get_property(epc_list)
cmd_get_property(epc_list) ==
    [valid |-> TRUE,
     ehd |-> <<"1","0","8","1">>,
     tid |-> Fmt04X(TID),
     seoj |-> <<"0","5","F","F","0","1">>,
     deoj |-> <<"0","2","8","8","0","1">>,
     esv |-> <<"6","2">>,
     opc |-> Fmt02X(Len(epc_list)),
     properties |-> RequestProperties(epc_list, <<>>)]

-----------------------------------------------------------------------------
(* Byte strings read from the serial port *)

\* the bytes b >= 0x80 of the model's alphabet
HighBytes == {"\\x80"}

Whitespace == {" ", "\t", "\r", "\n"}

B_OK == <<"O","K">>
B_ESREG == <<"E","S","R","E","G"," ">>
B_EVENT20 == <<"E","V","E","N","T"," ","2","0">>
B_EVENT21 == <<"E","V","E","N","T"," ","2","1">>
B_EVENT22 == <<"E","V","E","N","T"," ","2","2">>
B_EPANDESC == <<"E","P","A","N","D","E","S","C">>
B_2SP == <<" "," ">>
S_ERXUDP == <<"E","R","X","U","D","P">>
S_EVENT == <<"E","V","E","N","T">>
S_24 == <<"2","4">>
S_25 == <<"2","5">>
S_27 == <<"2","7">>
S_28 == <<"2","8">>
K_PANID == <<"P","a","n"," ","I","D">>
K_CHANNEL == <<"C","h","a","n","n","e","l">>
K_ADDR == <<"A","d","d","r">>
K_LQI == <<"L","Q","I">>

\* the least element of a non-empty set of numbers
Least(S) == CHOOSE x \in S : \A y \in S : x <= y

\* bytes.strip() / str.strip()
Strip(s) ==
    LET keep == {i \in 1..Len(s) : s[i] \notin Whitespace}
    IN  IF keep = {} THEN <<>>
        ELSE SubSeq(s, Least(keep), CHOOSE x \in keep : \A y \in keep : y <= x)

RECURSIVE Split(_)
\* str.split(): split on runs of whitespace
Split(s) ==
    LET keep == {i \in 1..Len(s) : s[i] \notin Whitespace}
    IN  IF keep = {} THEN <<>>
        ELSE LET first == Least(keep)
                 gaps == {i \in first..Len(s) : s[i] \in Whitespace}
                 end == IF gaps = {} THEN Len(s) + 1 ELSE Least(gaps)
             IN  <<SubSeq(s, first, end - 1)>> \o Split(SubSeq(s, end, Len(s)))

RECURSIVE SplitOn(_, _)
\* str.split(sep) for a one-character separator
SplitOn(s, sep) ==
    LET seps == {i \in 1..Len(s) : s[i] = sep}
    IN  IF seps = {} THEN <<s>>
        ELSE <<SubSeq(s, 1, Least(seps) - 1)>>
             \o SplitOn(SubSeq(s, Least(seps) + 1, Len(s)), sep)

\* bytes.decode('ascii') raises UnicodeDecodeError
DecodeRaises(line) == \E i \in 1..Len(line) : line[i] \in HighBytes

\* is_ipv6_address(addr)
is_ipv6_address(addr) ==
    LET lst == SplitOn(addr, ":")
    IN  IF Len(lst) # 8 THEN FALSE
        ELSE \A i \in 1..8 : Len(lst[i]) = 4 /\ is_hex(lst[i], 0)

-----------------------------------------------------------------------------
(* WiSunRL7023: event parsing *)

\* WiSunRL7023.IPS, WiSunRL7023.DSS
IPS == 0
DSS == 1

\* an event dictionary; NAME = "" is the empty dictionary {}
EmptyEvent ==
    [NAME |-> "", LIST |-> <<>>, NUM |-> <<>>, SENDER |-> <<>>, DEST |-> <<>>,
     RPORT |-> <<>>, LPORT |-> <<>>, SENDERLLA |-> <<>>, SECURED |-> <<>>,
     DATALEN |-> <<>>, DATA |-> <<>>]

InvalidErxudp(list) == [EmptyEvent EXCEPT !.NAME = "INVALID_ERXUDP", !.LIST = list]

\* WiSunRL7023._parse_event(line) for a driver of the given type;
\* list[i] of the code is list[i + 1] here
_parse_event(type, line) ==
    IF \E i \in 1..Len(line) : line[i] \in HighBytes
    THEN [EmptyEvent EXCEPT !.NAME = "INVALID_EVENT"]
    ELSE LET list == Split(Strip(line))
         IN  IF Len(list) = 0 THEN EmptyEvent
             ELSE IF list[1] = S_ERXUDP
             THEN LET length == IF type = DSS THEN 10 ELSE 9
                      idx == IF type = DSS THEN 8 ELSE 7
                  IN  IF Len(list) # length THEN InvalidErxudp(list)
                      ELSE IF \E i \in {1, 2} : ~is_ipv6_address(list[i + 1])
                           THEN InvalidErxudp(list)
                      ELSE IF \E i \in {3, 4} : ~is_hex(list[i + 1], 4)
                           THEN InvalidErxudp(list)
                      ELSE IF ~is_hex(list[5 + 1], 16) THEN InvalidErxudp(list)
                      ELSE IF ~is_hex(list[6 + 1], 1) THEN InvalidErxudp(list)
                      ELSE IF type = DSS /\ ~is_hex(list[7 + 1], 1) THEN InvalidErxudp(list)
                      ELSE IF ~is_hex(list[idx + 1], 4) THEN InvalidErxudp(list)
                      ELSE IF ~is_hex(list[idx + 1 + 1], 0) THEN InvalidErxudp(list)
                      ELSE [EmptyEvent EXCEPT
                                !.NAME = "ERXUDP", !.SENDER = list[1 + 1],
                                !.DEST = list[2 + 1], !.RPORT = list[3 + 1],
                                !.LPORT = list[4 + 1], !.SENDERLLA = list[5 + 1],
                                !.SECURED = list[6 + 1], !.DATALEN = list[idx + 1],
                                !.DATA = list[idx + 1 + 1]]
             ELSE IF list[1] = S_EVENT
             THEN IF Len(list) < 3 THEN EmptyEvent
                  ELSE [EmptyEvent EXCEPT
                            !.NAME = "EVENT", !.NUM = list[1 + 1], !.SENDER = list[2 + 1]]
             ELSE [EmptyEvent EXCEPT !.NAME = "OTHER_EVENT", !.LIST = list]

-----------------------------------------------------------------------------
(* WiSunRL7023: the operations, as functions of the lines the device sends *)
(* while the operation runs.  A run of lines s is followed by silence:     *)
(* once s is exhausted every readline() returns b'' (the 1 s read timeout) *)
(* until the operation returns.  Each result carries rest, the lines left  *)
(* unread, and raised, TRUE when the operation raised an exception.        *)

_TIMEOUT_MAX == 20
_TIMEOUT_SCAN == 300

\* number of keys of reginfo
NumRegisters == 19

\* toc > 5 in _get_registers
RegisterReadLimit == 5

RECURSIVE WaitOkLoop(_, _)
WaitOkLoop(s, toc) ==
    IF s = <<>> THEN [ok |-> FALSE, rest |-> <<>>, raised |-> FALSE]
    ELSE LET res == Head(s)
         IN  IF Slice(res, 0, 2) = B_OK
             THEN [ok |-> TRUE, rest |-> Tail(s), raised |-> FALSE]
             ELSE IF res = <<>>
             THEN IF toc + 1 > _TIMEOUT_MAX
                  THEN [ok |-> FALSE, rest |-> Tail(s), raised |-> FALSE]
                  ELSE WaitOkLoop(Tail(s), toc + 1)
             ELSE WaitOkLoop(Tail(s), toc)

\* _wait_ok giving up at a first line that is not OK
_wait_ok_strict(s) ==
    IF s # <<>> /\ Head(s) # <<>> /\ Slice(Head(s), 0, 2) # B_OK
    THEN [ok |-> FALSE, rest |-> Tail(s), raised |-> FALSE]
    ELSE WaitOkLoop(s, 0)

\* WiSunRL7023._wait_ok()
_wait_ok(s) == WaitOkLoop(s, 0)

\* WiSunRL7023.reset(): write SKRESET, wait for OK
reset(s) == _wait_ok(s)

\* WiSunRL7023._set_password(), _set_id(), _set_panid(), _set_channel():
\* write the command, wait for OK
_set_register(s) == _wait_ok(s)

\* WiSunRL7023.setup(id, password)
setup(s) ==
    LET r1 == _set_register(s)
        r2 == _set_register(r1.rest)
    IN  [ok |-> r1.ok /\ r2.ok, rest |-> r2.rest, raised |-> FALSE]

RECURSIVE GetRegistersLoop(_, _, _)
GetRegistersLoop(s, nkeys, toc) ==
    IF nkeys = 0 \/ s = <<>> THEN [ok |-> TRUE, rest |-> s, raised |-> FALSE]
    ELSE LET res == Head(s)
         IN  IF Slice(res, 0, 6) = B_ESREG
                /\ (DecodeRaises(res) \/ Len(Split(Strip(res))) < 2)
             THEN [ok |-> FALSE, rest |-> Tail(s), raised |-> TRUE]
             ELSE IF Slice(res, 0, 2) = B_OK \/ toc + 1 > RegisterReadLimit
             THEN GetRegistersLoop(Tail(s), nkeys - 1, 0)
             ELSE GetRegistersLoop(Tail(s), nkeys, toc + 1)

\* WiSunRL7023._get_registers(): the values read are only logged
_get_registers(s) == GetRegistersLoop(s, NumRegisters, 0)

\* WiSunRL7023._get_event()
_get_event(type, s) ==
    LET line == Strip(IF s = <<>> THEN <<>> ELSE Head(s))
        event == _parse_event(type, line)
    IN  [event |-> event,
         rest |-> IF s = <<>> THEN <<>> ELSE Tail(s),
         raised |-> event.NAME # "" /\ DecodeRaises(line)]

RECURSIVE JoinLoop(_, _, _)
JoinLoop(type, s, toc) ==
    IF s = <<>> THEN [ok |-> FALSE, rest |-> <<>>, raised |-> FALSE]
    ELSE LET e == _get_event(type, s)
         IN  IF e.raised THEN [ok |-> FALSE, rest |-> e.rest, raised |-> TRUE]
             ELSE IF e.event.NAME = "EVENT" /\ e.event.NUM = S_25
             THEN [ok |-> TRUE, rest |-> e.rest, raised |-> FALSE]
             ELSE IF e.event.NAME = "EVENT" /\ e.event.NUM = S_24
             THEN [ok |-> FALSE, rest |-> e.rest, raised |-> FALSE]
             ELSE IF e.event.NAME # "" THEN JoinLoop(type, e.rest, toc)
             ELSE IF toc + 1 > _TIMEOUT_MAX
             THEN [ok |-> FALSE, rest |-> e.rest, raised |-> FALSE]
             ELSE JoinLoop(type, e.rest, toc + 1)

\* WiSunRL7023.join(rejoin): write SKJOIN or SKREJOIN, wait for EVENT 25 / 24
join(type, s) == JoinLoop(type, s, 0)

RECURSIVE SendtoLoop(_, _, _)
SendtoLoop(s, toc, evt21) ==
    IF s = <<>> THEN [ok |-> FALSE, rest |-> <<>>, raised |-> FALSE]
    ELSE LET res == Head(s)
         IN  IF res = <<>>
             THEN IF toc + 1 > _TIMEOUT_MAX
                  THEN [ok |-> FALSE, rest |-> Tail(s), raised |-> FALSE]
                  ELSE SendtoLoop(Tail(s), toc + 1, evt21)
             ELSE IF Slice(res, 0, 8) = B_EVENT21
             THEN IF DecodeRaises(res)
                  THEN [ok |-> FALSE, rest |-> Tail(s), raised |-> TRUE]
                  ELSE SendtoLoop(Tail(s), toc, TRUE)
             ELSE IF Slice(res, 0, 2) = B_OK
             THEN IF DecodeRaises(res)
                  THEN [ok |-> FALSE, rest |-> Tail(s), raised |-> TRUE]
                  ELSE [ok |-> evt21, rest |-> Tail(s), raised |-> FALSE]
             ELSE SendtoLoop(Tail(s), toc, evt21)

\* sendto returning True at OK whether or not EVENT 21 came before
sendto_anyok(s) == SendtoLoop(s, 0, TRUE)

\* WiSunRL7023.sendto(dataframe): write SKSENDTO and the frame, wait for OK
sendto(s) == SendtoLoop(s, 0, FALSE)

\* WiSunRL7023.receive(): frame is NoFrame for the return value None
receive(type, s) ==
    LET e == _get_event(type, s)
    IN  IF e.raised THEN [frame |-> NoFrame, rest |-> e.rest, raised |-> TRUE]
        ELSE IF e.event.NAME = "ERXUDP"
        THEN [frame |-> decode(e.event.DATALEN, e.event.DATA),
              rest |-> e.rest, raised |-> FALSE]
        ELSE [frame |-> NoFrame, rest |-> e.rest, raised |-> FALSE]

RECURSIVE TermLoop(_, _, _)
TermLoop(type, s, toc) ==
    IF s = <<>> THEN [ok |-> FALSE, rest |-> <<>>, raised |-> FALSE]
    ELSE LET e == _get_event(type, s)
         IN  IF e.raised THEN [ok |-> FALSE, rest |-> e.rest, raised |-> TRUE]
             ELSE IF e.event.NAME = "EVENT" /\ e.event.NUM \in {S_27, S_28}
             THEN [ok |-> TRUE, rest |-> e.rest, raised |-> FALSE]
             ELSE IF e.event.NAME # "" THEN TermLoop(type, e.rest, toc)
             ELSE IF toc + 1 > _TIMEOUT_MAX
             THEN [ok |-> FALSE, rest |-> e.rest, raised |-> FALSE]
             ELSE TermLoop(type, e.rest, toc + 1)

\* WiSunRL7023.term(): write SKTERM, wait for OK, then for EVENT 27 / 28
term(type, s) ==
    LET r == _wait_ok(s)
    IN  IF ~r.ok THEN r ELSE TermLoop(type, r.rest, 0)

-----------------------------------------------------------------------------
(* WiSunRL7023: scan and the scan cache.  The file scancache.json is       *)
(* [exists, mtime, readable, keys]: readable is FALSE when json.load (or   *)
(* .keys() of what it loads) raises; keys are the keys of the JSON object. *)
(* A scan result is [isdict, keys]: the values of a scan result go only    *)
(* into command text and are not kept.                                     *)

RequiredKeys == {K_PANID, K_CHANNEL, K_ADDR}

\* now - mtime < 3600 in _scancache
CacheMaxAge == 3600

NoFile == [exists |-> FALSE, mtime |-> 0, readable |-> FALSE, keys |-> {}]

EmptyDict == [isdict |-> TRUE, keys |-> {}]
\* the value False that _scanexec returns and scan() stores in self.scanresult
FalseResult == [isdict |-> FALSE, keys |-> {}]

\* bool(x) of a scan result
Truthy(x) == x.isdict /\ x.keys # {}

\* _scancache taking a file for fresh at the age of exactly one hour
_scancache_le(file, now) ==
    IF file.exists
    THEN IF now - file.mtime <= CacheMaxAge
         THEN IF ~file.readable THEN [data |-> EmptyDict, file |-> file]
              ELSE IF RequiredKeys \subseteq file.keys
              THEN [data |-> [isdict |-> TRUE, keys |-> file.keys], file |-> file]
              ELSE [data |-> EmptyDict, file |-> NoFile]
         ELSE [data |-> EmptyDict, file |-> file]
    ELSE [data |-> EmptyDict, file |-> file]

\* WiSunRL7023._scancache()
_scancache(file, now) ==
    IF file.exists
    THEN IF now - file.mtime < CacheMaxAge
         THEN IF ~file.readable THEN [data |-> EmptyDict, file |-> file]
              ELSE IF RequiredKeys \subseteq file.keys
              THEN [data |-> [isdict |-> TRUE, keys |-> file.keys], file |-> file]
              ELSE [data |-> EmptyDict, file |-> NoFile]
         ELSE [data |-> EmptyDict, file |-> file]
    ELSE [data |-> EmptyDict, file |-> file]

RECURSIVE ScanexecLoop(_, _, _)
\* Step 2 of _scanexec: ok is TRUE when EVENT 22 ended the loop
ScanexecLoop(s, toc, keys) ==
    IF s = <<>> THEN [ok |-> FALSE, rest |-> <<>>, raised |-> FALSE, keys |-> keys]
    ELSE LET res == Head(s)
             \* the reads that time out before the next line, taken in one step
             lines == {i \in 1..Len(s) : s[i] # <<>>}
             k == IF lines = {} THEN Len(s)
                  ELSE (CHOOSE i \in lines : \A j \in lines : i <= j) - 1
         IN  IF res = <<>>
             THEN IF toc + k > _TIMEOUT_SCAN
                  THEN [ok |-> FALSE, rest |-> SubSeq(s, _TIMEOUT_SCAN - toc + 2, Len(s)),
                        raised |-> FALSE, keys |-> keys]
                  ELSE ScanexecLoop(SubSeq(s, k + 1, Len(s)), toc + k, keys)
             ELSE IF Slice(res, 0, 8) = B_EVENT22
             THEN [ok |-> TRUE, rest |-> Tail(s), raised |-> FALSE, keys |-> keys]
             ELSE IF Slice(res, 0, 8) = B_EVENT20 \/ Slice(res, 0, 8) = B_EPANDESC
             THEN ScanexecLoop(Tail(s), toc, keys)
             ELSE IF Slice(res, 0, 2) = B_2SP
             THEN IF DecodeRaises(res) \/ Len(SplitOn(Strip(res), ":")) < 2
                  THEN [ok |-> FALSE, rest |-> Tail(s), raised |-> TRUE, keys |-> keys]
                  ELSE ScanexecLoop(Tail(s), toc, keys \cup {SplitOn(Strip(res), ":")[1]})
             ELSE IF DecodeRaises(res)
             THEN [ok |-> FALSE, rest |-> Tail(s), raised |-> TRUE, keys |-> keys]
             ELSE ScanexecLoop(Tail(s), toc, keys)

\* WiSunRL7023._scanexec(): write SKSCAN, wait for OK, collect the result
_scanexec(s, file, now) ==
    LET w == _wait_ok(s)
    IN  IF ~w.ok
        THEN [data |-> FalseResult, rest |-> w.rest, raised |-> FALSE, file |-> file]
        ELSE LET r == ScanexecLoop(w.rest, 0, {})
             IN  IF r.raised
                 THEN [data |-> EmptyDict, rest |-> r.rest, raised |-> TRUE, file |-> file]
                 ELSE IF ~r.ok
                 THEN [data |-> FalseResult, rest |-> r.rest, raised |-> FALSE, file |-> file]
                 ELSE IF RequiredKeys \subseteq r.keys
                 THEN [data |-> [isdict |-> TRUE, keys |-> r.keys], rest |-> r.rest,
                       raised |-> FALSE,
                       file |-> [exists |-> TRUE, mtime |-> now, readable |-> TRUE,
                                 keys |-> r.keys]]
                 ELSE [data |-> EmptyDict, rest |-> r.rest, raised |-> FALSE, file |-> file]

\* Step 2 of scan(): when the result holds the required keys, set the PAN id
\* and channel registers (the outcome of either is ignored), write SKLL64,
\* skip the echo line and read the address line; else drop the result
ScanConfigure(s, data) ==
    IF RequiredKeys \subseteq data.keys
    THEN LET r1 == _set_register(s)
             r2 == _set_register(r1.rest)
             afterEcho == IF r2.rest = <<>> THEN <<>> ELSE Tail(r2.rest)
             addr == IF afterEcho = <<>> THEN <<>> ELSE Head(afterEcho)
             raised == DecodeRaises(Strip(addr))
         IN  [ok |-> ~raised, rest |-> IF afterEcho = <<>> THEN <<>> ELSE Tail(afterEcho),
              raised |-> raised, scanresult |-> data]
    ELSE [ok |-> FALSE, rest |-> s, raised |-> FALSE, scanresult |-> EmptyDict]

\* scan() going to the active scan without asking the cache
scan_active(s, file, now) ==
    LET x == _scanexec(s, file, now)
    IN  IF x.raised \/ ~Truthy(x.data)
        THEN [ok |-> FALSE, rest |-> x.rest, raised |-> x.raised,
              scanresult |-> x.data, file |-> x.file, active |-> TRUE]
        ELSE LET g == ScanConfigure(x.rest, x.data)
             IN  [ok |-> g.ok, rest |-> g.rest, raised |-> g.raised,
                  scanresult |-> g.scanresult, file |-> x.file, active |-> TRUE]

\* WiSunRL7023.scan(); active is TRUE when SKSCAN was written
scan(s, file, now) ==
    LET c == _scancache(file, now)
    IN  IF Truthy(c.data)
        THEN LET g == ScanConfigure(s, c.data)
             IN  [ok |-> g.ok, rest |-> g.rest, raised |-> g.raised,
                  scanresult |-> g.scanresult, file |-> c.file, active |-> FALSE]
        ELSE LET x == _scanexec(s, c.file, now)
             IN  IF x.raised \/ ~Truthy(x.data)
                 THEN [ok |-> FALSE, rest |-> x.rest, raised |-> x.raised,
                       scanresult |-> x.data, file |-> x.file, active |-> TRUE]
                 ELSE LET g == ScanConfigure(x.rest, x.data)
                      IN  [ok |-> g.ok, rest |-> g.rest, raised |-> g.raised,
                           scanresult |-> g.scanresult, file |-> x.file, active |-> TRUE]

-----------------------------------------------------------------------------
(* Lines of the device *)

L_OK == <<"O","K","\r","\n">>
L_FAIL == <<"F","A","I","L"," ","E","R","0","4","\r","\n">>
L_EV20 == <<"E","V","E","N","T"," ","2","0"," ","F","E","8","0",":","0","0","0","0",":","0","0","0","0",":","0","0","0","0",":","0","2","1","D",":","1","2","9","0",":","1","2","3","4",":","5","6","7","8","\r","\n">>
L_EV21 == <<"E","V","E","N","T"," ","2","1"," ","F","E","8","0",":","0","0","0","0",":","0","0","0","0",":","0","0","0","0",":","0","2","1","D",":","1","2","9","0",":","1","2","3","4",":","5","6","7","8"," ","0","0","\r","\n">>
L_EV22 == <<"E","V","E","N","T"," ","2","2"," ","F","E","8","0",":","0","0","0","0",":","0","0","0","0",":","0","0","0","0",":","0","2","1","D",":","1","2","9","0",":","0","0","0","3",":","C","8","9","0","\r","\n">>
L_EV24 == <<"E","V","E","N","T"," ","2","4"," ","F","E","8","0",":","0","0","0","0",":","0","0","0","0",":","0","0","0","0",":","0","2","1","D",":","1","2","9","0",":","1","2","3","4",":","5","6","7","8","\r","\n">>
L_EV25 == <<"E","V","E","N","T"," ","2","5"," ","F","E","8","0",":","0","0","0","0",":","0","0","0","0",":","0","0","0","0",":","0","2","1","D",":","1","2","9","0",":","1","2","3","4",":","5","6","7","8","\r","\n">>
L_EV27 == <<"E","V","E","N","T"," ","2","7"," ","F","E","8","0",":","0","0","0","0",":","0","0","0","0",":","0","0","0","0",":","0","2","1","D",":","1","2","9","0",":","1","2","3","4",":","5","6","7","8","\r","\n">>
L_EPANDESC == <<"E","P","A","N","D","E","S","C","\r","\n">>
L_CHANNEL == <<" "," ","C","h","a","n","n","e","l",":","2","1","\r","\n">>
L_PANID == <<" "," ","P","a","n"," ","I","D",":","8","8","8","8","\r","\n">>
L_ADDR == <<" "," ","A","d","d","r",":","0","0","1","D","1","2","9","0","1","2","3","4","5","6","7","8","\r","\n">>
L_ECHO == <<"S","K","L","L","6","4"," ","0","0","1","D","1","2","9","0","1","2","3","4","5","6","7","8","\r","\n">>
L_LL64 == <<"F","E","8","0",":","0","0","0","0",":","0","0","0","0",":","0","0","0","0",":","0","2","1","D",":","1","2","9","0",":","1","2","3","4",":","5","6","7","8","\r","\n">>
L_ESREG == <<"E","S","R","E","G"," ","2","1","\r","\n">>
L_ESREG_HIGH == <<"E","S","R","E","G"," ","\\x80","\r","\n">>
L_HIGH == <<"\\x80","\r","\n">>
L_OK_HIGH == <<"O","K","\\x80","\r","\n">>
\* an E7 response of 18 bytes, and the same line announcing 17 bytes
L_ERXUDP_E7 == <<"E","R","X","U","D","P"," ","F","E","8","0",":","0","0","0","0",":","0","0","0","0",":","0","0","0","0",":","0","2","1","D",":","1","2","9","0",":","1","2","3","4",":","5","6","7","8"," ","F","E","8","0",":","0","0","0","0",":","0","0","0","0",":","0","0","0","0",":","0","2","1","D",":","1","2","9","0",":","0","0","0","3",":","C","8","9","0"," ","0","E","1","A"," ","0","E","1","A"," ","0","0","1","D","1","2","9","0","1","2","3","4","5","6","7","8"," ","1"," ","0","0","1","2"," ","1","0","8","1","0","0","0","1","0","2","8","8","0","1","0","5","F","F","0","1","7","2","0","1","E","7","0","4","0","0","0","0","0","1","F","4","\r","\n">>
L_ERXUDP_BADLEN == <<"E","R","X","U","D","P"," ","F","E","8","0",":","0","0","0","0",":","0","0","0","0",":","0","0","0","0",":","0","2","1","D",":","1","2","9","0",":","1","2","3","4",":","5","6","7","8"," ","F","E","8","0",":","0","0","0","0",":","0","0","0","0",":","0","0","0","0",":","0","2","1","D",":","1","2","9","0",":","0","0","0","3",":","C","8","9","0"," ","0","E","1","A"," ","0","E","1","A"," ","0","0","1","D","1","2","9","0","1","2","3","4","5","6","7","8"," ","1"," ","0","0","1","1"," ","1","0","8","1","0","0","0","1","0","2","8","8","0","1","0","5","F","F","0","1","7","2","0","1","E","7","0","4","0","0","0","0","0","1","F","4","\r","\n">>
\* a D3 response: the coefficient 10
L_ERXUDP_D3 == <<"E","R","X","U","D","P"," ","F","E","8","0",":","0","0","0","0",":","0","0","0","0",":","0","0","0","0",":","0","2","1","D",":","1","2","9","0",":","1","2","3","4",":","5","6","7","8"," ","F","E","8","0",":","0","0","0","0",":","0","0","0","0",":","0","0","0","0",":","0","2","1","D",":","1","2","9","0",":","0","0","0","3",":","C","8","9","0"," ","0","E","1","A"," ","0","E","1","A"," ","0","0","1","D","1","2","9","0","1","2","3","4","5","6","7","8"," ","1"," ","0","0","1","2"," ","1","0","8","1","0","0","0","1","0","2","8","8","0","1","0","5","F","F","0","1","7","2","0","1","D","3","0","4","0","0","0","0","0","0","0","A","\r","\n">>
\* a response with the service code 52, and an ERXUDP line of three fields
L_ERXUDP_ESV52 == <<"E","R","X","U","D","P"," ","F","E","8","0",":","0","0","0","0",":","0","0","0","0",":","0","0","0","0",":","0","2","1","D",":","1","2","9","0",":","1","2","3","4",":","5","6","7","8"," ","F","E","8","0",":","0","0","0","0",":","0","0","0","0",":","0","0","0","0",":","0","2","1","D",":","1","2","9","0",":","0","0","0","3",":","C","8","9","0"," ","0","E","1","A"," ","0","E","1","A"," ","0","0","1","D","1","2","9","0","1","2","3","4","5","6","7","8"," ","1"," ","0","0","1","2"," ","1","0","8","1","0","0","0","1","0","2","8","8","0","1","0","5","F","F","0","1","5","2","0","1","E","7","0","4","0","0","0","0","0","1","F","4","\r","\n">>
L_ERXUDP_SHORT == <<"E","R","X","U","D","P"," ","F","E","8","0",":","0","0","0","0",":","0","0","0","0",":","0","0","0","0",":","0","2","1","D",":","1","2","9","0",":","1","2","3","4",":","5","6","7","8"," ","0","E","1","A","\r","\n">>

\* n reads that time out
Silence(n) == [i \in 1..n |-> <<>>]

-----------------------------------------------------------------------------
(* BrouteReader._accept: interpretation of a received frame.  A value is   *)
(* the decimal number m * 10^e, kept as [m, e]; the unit multiplier, a     *)
(* power of ten between 0.0001 and 10000, is kept as its exponent.         *)

Num(m, e) == [m |-> m, e |-> e]

RECURSIVE Pow16(_)
Pow16(n) == IF n = 0 THEN 1 ELSE 16 * Pow16(n - 1)

\* hex_to_signed_int reading the top bit as the sign of a magnitude
hex_to_signed_int_magnitude(value) ==
    LET bits0 == HexVal(value[1]) \div 8
    IN  IF bits0 = 1
        THEN 0 - ((HexVal(value[1]) - 8) * Pow16(Len(value) - 1) + HexToInt(Tail(value)))
        ELSE HexVal(value[1]) * Pow16(Len(value) - 1) + HexToInt(Tail(value))

\* hex_to_signed_int(value) with digit = 0, for a non-empty hex string:
\* -int(bits[0]) << digit2 | int(bits, 2).  bits[0] is the top bit of the
\* first digit; the two operands of | share no bit, so the | is a sum, and
\* the sum is formed from the first digit down so that every intermediate
\* value of a 32-bit field stays within 32 bits
hex_to_signed_int(value) ==
    LET bits0 == HexVal(value[1]) \div 8
    IN  (HexVal(value[1]) - 16 * bits0) * Pow16(Len(value) - 1) + HexToInt(Tail(value))

S_E7 == <<"E","7">>
S_E8 == <<"E","8">>
S_E8R == <<"E","8","R">>
S_E8T == <<"E","8","T">>
S_E0 == <<"E","0">>
S_E3 == <<"E","3">>
S_D3 == <<"D","3">>
S_D7 == <<"D","7">>
S_E1 == <<"E","1">>
S_EA == <<"E","A">>
S_EB == <<"E","B">>
S_METER == <<"0","2","8","8","0","1">>
S_72 == <<"7","2">>
S_73 == <<"7","3">>

\* the local variable unit of _accept before any assignment to it
Unbound == 99

\* the if / elif chain on the unit code: the exponent of the multiplier;
\* Unbound when no branch assigns unit
UnitOfCode(value) ==
    IF value = 0 THEN 0
    ELSE IF value = 1 THEN -1
    ELSE IF value = 2 THEN -2
    ELSE IF value = 3 THEN -3
    ELSE IF value = 4 THEN -4
    ELSE IF value = 10 THEN 1
    ELSE IF value = 11 THEN 2
    ELSE IF value = 12 THEN 3
    ELSE IF value = 13 THEN 4
    ELSE Unbound

\* getvalue multiplying by the coefficient and the unit of __init__
getvalue_default(rawdata, coef, unt) == Num(HexToInt(rawdata) * 1, -1)

\* getvalue(rawdata) of _accept, for a non-empty hex string
getvalue(rawdata, coef, unt) == Num(HexToInt(rawdata) * coef, unt)

Record(sensor, value) == [sensor |-> sensor, value |-> value]

RECURSIVE AcceptLoop(_, _)
\* the for loop of _accept over the properties left, from the state a:
\* [coefficient, unit, effective_digits, lunit, records, raised]
AcceptLoop(properties, a) ==
    IF properties = <<>> \/ a.raised THEN a
    ELSE LET epc == properties[1][1]
             edt == properties[1][2]
             fail == [a EXCEPT !.raised = TRUE]
             next ==
               IF epc = S_E7
               THEN IF IntRaises(edt) THEN fail
                    ELSE [a EXCEPT !.records = Append(@,
                              Record(epc, Num(hex_to_signed_int(edt), 0)))]
               ELSE IF epc = S_E8
               THEN IF IntRaises(Slice(edt, 0, 4)) \/ IntRaises(SliceFrom(edt, 4)) THEN fail
                    ELSE LET rvalue == hex_to_signed_int(Slice(edt, 0, 4))
                             tvalue == hex_to_signed_int(SliceFrom(edt, 4))
                         IN  [a EXCEPT !.records = @ \o <<Record(S_E8R, Num(rvalue, -1)),
                                  Record(S_E8T, Num(tvalue, -1)),
                                  Record(S_E8, Num(rvalue + tvalue, -1))>>]
               ELSE IF epc \in {S_E0, S_E3}
               THEN IF IntRaises(edt) THEN fail
                    ELSE [a EXCEPT !.records = Append(@,
                              Record(epc, getvalue(edt, a.coefficient, a.unit)))]
               ELSE IF epc = S_D3
               THEN IF IntRaises(edt) THEN fail
                    ELSE [a EXCEPT !.coefficient = HexToInt(edt),
                                   !.records = Append(@, Record(epc, Num(HexToInt(edt), 0)))]
               ELSE IF epc = S_D7
               THEN IF IntRaises(edt) THEN fail
                    ELSE [a EXCEPT !.effective_digits = HexToInt(edt),
                                   !.records = Append(@, Record(epc, Num(HexToInt(edt), 0)))]
               ELSE IF epc = S_E1
               THEN IF IntRaises(edt) THEN fail
                    ELSE LET code == HexToInt(edt)
                             known == UnitOfCode(code) # Unbound
                             lunit == IF known THEN UnitOfCode(code) ELSE a.lunit
                             value == IF known THEN Num(code, 0) ELSE Num(1, -1)
                         IN  IF lunit = Unbound THEN fail
                             ELSE [a EXCEPT !.unit = lunit, !.lunit = lunit,
                                            !.records = Append(@, Record(S_E1, value))]
               ELSE IF epc \in {S_EA, S_EB}
               THEN IF IntRaises(SliceFrom(edt, 14)) THEN fail
                    ELSE [a EXCEPT !.records = Append(@,
                              Record(epc, getvalue(SliceFrom(edt, 14), a.coefficient, a.unit)))]
               ELSE a
         IN  AcceptLoop(Tail(properties), next)

\* BrouteReader._accept(dataframe) from the calibration (coef, unt, digits)
_accept(dataframe, coef, unt, digits) ==
    LET a0 == [coefficient |-> coef, unit |-> unt, effective_digits |-> digits,
               lunit |-> Unbound, records |-> <<>>, raised |-> FALSE]
    IN  IF dataframe.seoj = S_METER /\ dataframe.esv \in {S_72, S_73}
        THEN AcceptLoop(dataframe.properties, a0)
        ELSE a0

-----------------------------------------------------------------------------
(* BrouteReader: configuration and bounds *)

\* type=WiSunRL7023.IPS of the shipped configuration
TYPE == IPS

_STATE_INIT == 0
_STATE_OPEN == 1
_STATE_SETUP == 2
_STATE_SCAN == 3
_STATE_JOIN == 4

\* self.scan_retry > 5, self.join_retry > 5
ScanRetryLimit == 5
JoinRetryLimit == 5

\* now - self.lasttime_receive > 600
WatchdogTimeout == 600

\* the requests handed to BrouteReader, lasttime set by __init__: the first
\* and the third of the shipped configuration, and the second alone
Requests0 ==
    << [epc |-> <<S_D3, S_D7, S_E1>>, cycle |-> 3600, lasttime |-> 0],
       [epc |-> <<S_E0>>, cycle |-> 300, lasttime |-> 0] >>
RequestsPoll ==
    << [epc |-> <<S_E7, S_E8>>, cycle |-> 10, lasttime |-> 0] >>

NumRequests == Len(requests)

\* capacity of the queue handed to BrouteReader
QueueSize == 2

\* the clock when the program starts, and how long a run is followed
StartClock == 5000
Horizon == 1250
PollHorizon == 45

\* seconds that pass before a handler reads the clock, and between the two
\* readings of one JOIN iteration
Deltas == {0, WatchdogTimeout, WatchdogTimeout + 1}
PollDeltas == {0, 10, 11}

\* scancache.json when the program starts
CacheFiles0 ==
    { NoFile,
      [exists |-> TRUE, mtime |-> StartClock - 60, readable |-> TRUE, keys |-> RequiredKeys],
      [exists |-> TRUE, mtime |-> StartClock - CacheMaxAge, readable |-> TRUE,
       keys |-> RequiredKeys],
      [exists |-> TRUE, mtime |-> StartClock - 60, readable |-> TRUE,
       keys |-> {K_PANID, K_CHANNEL}],
      [exists |-> TRUE, mtime |-> StartClock - 60, readable |-> FALSE, keys |-> {}] }

(* the lines the device sends while a handler runs *)

SetupScripts ==
    { <<L_OK, L_OK, L_OK>>,
      <<>>,
      Silence(_TIMEOUT_MAX + 1) \o <<L_OK, L_OK>>,
      <<L_OK, L_OK>>,
      <<L_OK>> \o Silence(_TIMEOUT_MAX + 1) \o <<L_OK>>,
      <<L_OK, L_FAIL, L_OK, L_OK, L_ESREG, L_OK>>,
      <<L_OK, L_OK, L_OK, L_ESREG_HIGH>> }

ScanScripts ==
    { <<>>,
      <<L_OK, L_OK, L_ECHO, L_LL64>>,
      <<L_OK, L_EV20, L_EPANDESC, L_CHANNEL, L_PANID, L_ADDR, L_EV22,
        L_OK, L_OK, L_ECHO, L_LL64>>,
      <<L_OK, L_EV20, L_EPANDESC, L_CHANNEL, L_PANID, L_EV22>>,
      <<L_OK, L_HIGH>> }

JoinScripts ==
    { <<L_EV25>>, <<L_EV24>>, <<>>, <<L_EV21, <<>>, L_EV25>>, <<L_HIGH>> }

SendScripts ==
    { <<L_ERXUDP_E7, L_EV21, L_OK>>, <<>>, <<L_EV21, L_OK_HIGH>> }

ReceiveScripts ==
    { <<>>, <<L_ERXUDP_E7>>, <<L_ERXUDP_D3>>, <<L_ERXUDP_ESV52>>,
      <<L_ERXUDP_BADLEN>>, <<L_ERXUDP_SHORT>>, <<L_EV21>>, <<L_FAIL>>, <<L_HIGH>> }

TermScripts ==
    { <<L_OK, L_EV27>>, <<>>, <<L_OK, L_HIGH>> }

(* what the operations that parse events return on these lines *)

JoinResults == { join(TYPE, s) : s \in JoinScripts }
SendResults == { sendto(s) : s \in SendScripts }
ReceiveResults == { receive(TYPE, s) : s \in ReceiveScripts }
TermResults == { term(TYPE, s) : s \in TermScripts }

-----------------------------------------------------------------------------
(* BrouteReader: the session state machine.  One action per branch of the  *)
(* loop of run(); lasttime_erxudp and lasttime_rejoin are written by _join *)
(* and read nowhere, and are left out.                                     *)

\* hist describes the last step of run(): last is its outcome, ops the
\* driver operations it invoked, fails the number of consecutive failed
\* scans (or joins) it ends, reset_ok and setup_ok what reset() and setup()
\* returned in it, now its first reading of the clock, failed the requests
\* whose sendto returned False in it.  Of the whole run it
\* keeps: t_last, the later of the last join and the last frame received;
\* wd_count, the watchdog resets since the last join; sends[i] and
\* first_sent[i], the number of sends of request i and the time of the first
Hist0 ==
    [last |-> "init", ops |-> <<>>, fails |-> 0, failed |-> {},
     reset_ok |-> FALSE, setup_ok |-> FALSE, now |-> StartClock,
     t_last |-> 0, wd_count |-> 0, sends |-> <<>>, first_sent |-> <<>>]

HistStep(last, ops) ==
    [hist EXCEPT !.last = last, !.ops = ops, !.fails = 0, !.failed = {},
                 !.reset_ok = FALSE, !.setup_ok = FALSE]

\* the consecutive failures so far, when the last step was a failure of kind
PrevFails(kind) == IF hist.last = kind THEN hist.fails ELSE 0

\* no call of the codec is under way
NoResult ==
    [done |-> FALSE, op |-> "", frame |-> NoFrame, encoded |-> FALSE, data |-> <<>>,
     event |-> EmptyEvent, ok |-> FALSE, raised |-> FALSE, active |-> FALSE,
     value |-> 0, records |-> <<>>]

CodecIdle ==
    /\ arg_type = TYPE
    /\ arg_length = <<>>
    /\ arg_data = <<>>
    /\ result = NoResult

\* BrouteReader.__init__
SessionInit(reqs) ==
    /\ pc = "loop"
    /\ stopEvent = FALSE
    /\ state = _STATE_INIT
    /\ scan_retry = 0
    /\ join_retry = 0
    /\ requests = reqs
    /\ lasttime_receive = 0
    /\ coefficient = 1
    /\ unit = -1
    /\ effective_digits = 6
    /\ record_que = <<>>
    /\ blocked = <<>>
    /\ serOpen = FALSE
    /\ scanresult = EmptyDict
    /\ clock = StartClock
    /\ hist = [Hist0 EXCEPT !.sends = [i \in 1..Len(reqs) |-> 0],
                            !.first_sent = [i \in 1..Len(reqs) |-> 0]]

Init ==
    /\ SessionInit(Requests0)
    /\ cachefile \in CacheFiles0
    /\ CodecIdle

\* the test of the while loop of run() passed: the stop event is not set
\* (run() is not inside a put of the previous iteration)
Looping == pc = "loop" /\ ~stopEvent /\ blocked = <<>>

\* BrouteReader._open(): the state after wisundev.open() returned ok
_open(ok) == IF ok THEN _STATE_OPEN ELSE _STATE_INIT

\* state INIT: self._open()
Open ==
    /\ Looping
    /\ state = _STATE_INIT
    /\ \E ok \in BOOLEAN :
        /\ state' = _open(ok)
        /\ serOpen' = ok
        /\ hist' = HistStep(IF ok THEN "open_ok" ELSE "open_fail", <<"open">>)
    /\ UNCHANGED <<pc, stopEvent, scan_retry, join_retry, requests, lasttime_receive,
                   coefficient, unit, effective_digits, record_que, blocked,
                   scanresult, cachefile, clock, cvars>>

\* BrouteReader._setup(): the state after reset() and setup() returned
_setup(reset_ok, setup_ok) == IF setup_ok THEN _STATE_SETUP ELSE _STATE_OPEN

\* state OPEN: self._setup()
Setup ==
    /\ Looping
    /\ state = _STATE_OPEN
    /\ \E s \in SetupScripts :
        \E r \in {reset(s)} :
        \E u \in {setup(r.rest)} :
        \E g \in {IF u.ok THEN _get_registers(u.rest)
                  ELSE [ok |-> TRUE, rest |-> u.rest, raised |-> FALSE]} :
            /\ state' = _setup(r.ok, u.ok)
            /\ pc' = IF g.raised THEN "crashed" ELSE pc
            /\ hist' = [HistStep(IF g.raised THEN "crash"
                                 ELSE IF state' = _STATE_SETUP THEN "setup_ok"
                                 ELSE "setup_fail",
                                 IF u.ok THEN <<"reset", "setup", "_get_registers">>
                                 ELSE <<"reset", "setup">>)
                        EXCEPT !.reset_ok = r.ok, !.setup_ok = u.ok]
    /\ UNCHANGED <<stopEvent, scan_retry, join_retry, requests, lasttime_receive,
                   coefficient, unit, effective_digits, record_que, blocked,
                   serOpen, scanresult, cachefile, clock, cvars>>

\* _scan without self.scan_retry = 0
_scan_ok_keep(retry) == [state |-> _STATE_SCAN, retry |-> retry, close |-> FALSE]

\* BrouteReader._scan(), scan() having returned TRUE
_scan_ok(retry) == [state |-> _STATE_SCAN, retry |-> 0, close |-> FALSE]

\* _scan giving up one failure early (>= for >)
_scan_fail_early(retry) ==
    IF retry + 1 >= ScanRetryLimit
    THEN [state |-> _STATE_INIT, retry |-> 0, close |-> TRUE]
    ELSE [state |-> _STATE_SETUP, retry |-> retry + 1, close |-> FALSE]

\* BrouteReader._scan(), scan() having returned FALSE
_scan_fail(retry) ==
    IF retry + 1 > ScanRetryLimit
    THEN [state |-> _STATE_INIT, retry |-> 0, close |-> TRUE]
    ELSE [state |-> _STATE_SETUP, retry |-> retry + 1, close |-> FALSE]

\* state SETUP: self._scan()
Scan ==
    /\ Looping
    /\ state = _STATE_SETUP
    /\ \E s \in ScanScripts :
        \E r \in {scan(s, cachefile, clock)} :
        \E n \in {IF r.ok THEN _scan_ok(scan_retry) ELSE _scan_fail(scan_retry)} :
            /\ scanresult' = r.scanresult
            /\ cachefile' = r.file
            /\ pc' = IF r.raised THEN "crashed" ELSE pc
            /\ state' = IF r.raised THEN state ELSE n.state
            /\ scan_retry' = IF r.raised THEN scan_retry ELSE n.retry
            /\ serOpen' = IF ~r.raised /\ n.close THEN FALSE ELSE serOpen
            /\ hist' = [HistStep(IF r.raised THEN "crash"
                                 ELSE IF r.ok THEN "scan_ok" ELSE "scan_fail",
                                 IF ~r.raised /\ n.close THEN <<"scan", "close">>
                                 ELSE <<"scan">>)
                        EXCEPT !.fails = IF r.raised THEN 0
                                         ELSE IF r.ok THEN PrevFails("scan_fail")
                                         ELSE PrevFails("scan_fail") + 1]
    /\ UNCHANGED <<stopEvent, join_retry, requests, lasttime_receive,
                   coefficient, unit, effective_digits, record_que, blocked,
                   clock, cvars>>

\* _join without self.join_retry = 0
_join_ok_keep(retry) == [state |-> _STATE_JOIN, retry |-> retry, close |-> FALSE]

\* BrouteReader._join(), join() having returned TRUE
_join_ok(retry) == [state |-> _STATE_JOIN, retry |-> 0, close |-> FALSE]

\* _join giving up one failure early (>= for >)
_join_fail_early(retry) ==
    IF retry + 1 >= JoinRetryLimit
    THEN [state |-> _STATE_INIT, retry |-> 0, close |-> TRUE]
    ELSE [state |-> _STATE_SCAN, retry |-> retry + 1, close |-> FALSE]

\* BrouteReader._join(), join() having returned FALSE; close also removes
\* scancache.json
_join_fail(retry) ==
    IF retry + 1 > JoinRetryLimit
    THEN [state |-> _STATE_INIT, retry |-> 0, close |-> TRUE]
    ELSE [state |-> _STATE_SCAN, retry |-> retry + 1, close |-> FALSE]

\* state SCAN: self._join(); d seconds pass before the clock is read
Join(D, maxclock) ==
    /\ Looping
    /\ state = _STATE_SCAN
    /\ \E r \in JoinResults, d \in D :
        \E n \in {IF r.ok THEN _join_ok(join_retry) ELSE _join_fail(join_retry)} :
        \E ts \in {clock + d} :
            /\ ts <= maxclock
            /\ r.ok \/ d = 0
            /\ clock' = ts
            /\ pc' = IF r.raised THEN "crashed" ELSE pc
            /\ state' = IF r.raised THEN state ELSE n.state
            /\ join_retry' = IF r.raised THEN join_retry ELSE n.retry
            /\ lasttime_receive' = IF r.ok THEN ts ELSE lasttime_receive
            /\ serOpen' = IF ~r.raised /\ n.close THEN FALSE ELSE serOpen
            /\ cachefile' = IF ~r.raised /\ n.close THEN NoFile ELSE cachefile
            /\ hist' = [HistStep(IF r.raised THEN "crash"
                                 ELSE IF r.ok THEN "join_ok" ELSE "join_fail",
                                 IF ~r.raised /\ n.close THEN <<"join", "close">>
                                 ELSE <<"join">>)
                        EXCEPT !.fails = IF r.raised THEN 0
                                         ELSE IF r.ok THEN PrevFails("join_fail")
                                         ELSE PrevFails("join_fail") + 1,
                               !.now = ts,
                               !.t_last = IF r.ok THEN ts ELSE @,
                               !.wd_count = IF r.ok THEN 0 ELSE @]
    /\ UNCHANGED <<stopEvent, scan_retry, requests, coefficient, unit,
                   effective_digits, record_que, blocked, scanresult, cvars>>

\* the test now - req['lasttime'] > req['cycle']
PollDue(req, now) == now - req.lasttime > req.cycle

\* req['lasttime'] = now at every send
PollLasttime_now(lasttime, cycle, now) == now

\* req['lasttime'] += req['cycle'] at every send, the first one too
PollLasttime_add(lasttime, cycle, now) == lasttime + cycle

\* req['lasttime'] after a send
PollLasttime(lasttime, cycle, now) ==
    IF lasttime = 0 THEN now ELSE lasttime + cycle

\* req['lasttime'] advanced only when the send returned True
SendAdvance_onsuccess(res, lasttime, cycle, now) ==
    IF res THEN PollLasttime(lasttime, cycle, now) ELSE lasttime

\* req['lasttime'] after res = self._sendto(cmd): res is not looked at
SendAdvance(res, lasttime, cycle, now) == PollLasttime(lasttime, cycle, now)

RECURSIVE PollRequests(_, _, _, _)
\* the for loop over self.requests from request i on; res[i] is what the
\* sendto of request i does: it returns, or raises; a is
\* [requests, sent, failed, raised], sent the requests whose sendto
\* returned, failed those of them whose sendto returned False
PollRequests(i, now, res, a) ==
    IF i > Len(a.requests) \/ a.raised THEN a
    ELSE IF PollDue(a.requests[i], now)
    THEN IF res[i].raised THEN [a EXCEPT !.raised = TRUE]
         ELSE PollRequests(i + 1, now, res,
                  [a EXCEPT !.requests[i].lasttime =
                                SendAdvance(res[i].ok, @, a.requests[i].cycle, now),
                            !.sent = @ \cup {i},
                            !.failed = IF res[i].ok THEN @ ELSE @ \cup {i}])
    ELSE PollRequests(i + 1, now, res, a)

\* an iteration that received no frame putting the calibration back to the
\* values of __init__
NoAccept_reset(coef, unt, digits) ==
    [coefficient |-> 1, unit |-> -1, effective_digits |-> 6,
     lunit |-> Unbound, records |-> <<>>, raised |-> FALSE]

\* what _accept does in an iteration that received no frame: nothing
NoAccept(coef, unt, digits) ==
    [coefficient |-> coef, unit |-> unt, effective_digits |-> digits,
     lunit |-> Unbound, records |-> <<>>, raised |-> FALSE]

\* self.lasttime_receive set at every iteration, frame or none
LasttimeReceive_always(got, now, lasttime) == now

\* self.lasttime_receive after self._receive(): now when a frame came back
LasttimeReceive(got, now, lasttime) == IF got THEN now ELSE lasttime

\* the test now - self.lasttime_receive > 600
WatchdogExpired(now, lasttime) == now - lasttime > WatchdogTimeout

\* the watchdog falling back to SCAN instead of INIT
_watchdog_state_scan == _STATE_SCAN

\* the state after the receive watchdog expired
_watchdog_state == _STATE_INIT

\* state JOIN: one iteration of the steady state.  d1 seconds pass before
\* the first reading of the clock, d2 before the second; res are the
\* results of the sends on the lines the device sends during them, rx and
\* t what receive() and term() return on the lines it sends then
Steady(D, maxclock) ==
    /\ Looping
    /\ state = _STATE_JOIN
    /\ \E d1 \in D, d2 \in D, res \in [1..NumRequests -> SendResults],
          rx \in ReceiveResults, t \in TermResults :
        \E now1 \in {clock + d1} :
        \E p \in {PollRequests(1, now1, res, [requests |-> requests, sent |-> {},
                                              failed |-> {}, raised |-> FALSE])} :
        \E got \in {~p.raised /\ ~rx.raised /\ rx.frame.valid} :
        \E now2 \in {IF got THEN now1 + d2 ELSE now1} :
        \E a \in {IF got THEN _accept(rx.frame, coefficient, unit, effective_digits)
                  ELSE NoAccept(coefficient, unit, effective_digits)} :
        \E lr \in {LasttimeReceive(got, now2, lasttime_receive)} :
        \E alive \in {~p.raised /\ ~rx.raised /\ ~a.raised} :
        \E expired \in {alive /\ WatchdogExpired(now2, lr)} :
        \E crashed \in {~alive \/ (expired /\ t.raised)} :
            /\ now1 + d2 <= maxclock
            /\ \A i \in 1..NumRequests :
                   PollDue(requests[i], now1) \/ res[i] = sendto(<<>>)
            /\ got \/ d2 = 0
            /\ expired \/ t = term(TYPE, <<>>)
            /\ p.raised => rx = receive(TYPE, <<>>)
            /\ clock' = now2
            /\ requests' = p.requests
            /\ lasttime_receive' = lr
            /\ coefficient' = a.coefficient
            /\ unit' = a.unit
            /\ effective_digits' = a.effective_digits
            /\ blocked' = a.records
            /\ pc' = IF crashed THEN "crashed" ELSE pc
            /\ state' = IF expired /\ ~t.raised THEN _watchdog_state ELSE state
            /\ serOpen' = IF expired /\ ~t.raised THEN FALSE ELSE serOpen
            /\ hist' = [HistStep(IF crashed THEN "crash"
                                 ELSE IF expired THEN "watchdog" ELSE "steady",
                                 [k \in 1..Cardinality(p.sent) |-> "sendto"]
                                 \o (IF p.raised THEN <<"sendto">> ELSE <<"receive">>)
                                 \o (IF got THEN <<"_accept">> ELSE <<>>)
                                 \o (IF expired
                                     THEN IF t.raised THEN <<"term">>
                                          ELSE <<"term", "close">>
                                     ELSE <<>>))
                        EXCEPT !.now = now1,
                               !.failed = p.failed,
                               !.t_last = IF got THEN now2 ELSE @,
                               !.wd_count = IF expired THEN @ + 1 ELSE @,
                               !.sends = [i \in 1..NumRequests |->
                                   IF i \in p.sent THEN @[i] + 1 ELSE @[i]],
                               !.first_sent = [i \in 1..NumRequests |->
                                   IF i \in p.sent /\ hist.sends[i] = 0 THEN now1
                                   ELSE @[i]]]
    /\ UNCHANGED <<stopEvent, scan_retry, join_retry, record_que, scanresult,
                   cachefile, cvars>>

\* a put that does not wait: the record is dropped when the queue is full
Put_drop ==
    /\ blocked # <<>>
    /\ record_que' = IF Len(record_que) < QueueSize
                     THEN Append(record_que, Head(blocked)) ELSE record_que
    /\ blocked' = Tail(blocked)
    /\ UNCHANGED <<pc, stopEvent, state, scan_retry, join_retry, requests,
                   lasttime_receive, coefficient, unit, effective_digits,
                   serOpen, scanresult, cachefile, clock, hist, cvars>>

\* record_que.put(...) returns: the queue has a free slot
Put ==
    /\ blocked # <<>>
    /\ Len(record_que) < QueueSize
    /\ record_que' = Append(record_que, Head(blocked))
    /\ blocked' = Tail(blocked)
    /\ UNCHANGED <<pc, stopEvent, state, scan_retry, join_retry, requests,
                   lasttime_receive, coefficient, unit, effective_digits,
                   serOpen, scanresult, cachefile, clock, hist, cvars>>

\* the consumer of the queue: record_que.get(timeout=3) returns a record
Consume ==
    /\ record_que # <<>>
    /\ record_que' = Tail(record_que)
    /\ UNCHANGED <<pc, stopEvent, state, scan_retry, join_retry, requests,
                   lasttime_receive, coefficient, unit, effective_digits,
                   blocked, serOpen, scanresult, cachefile, clock, hist, cvars>>

\* Worker.stop(): the stop event is set from outside the thread
SetStop ==
    /\ pc = "loop"
    /\ ~stopEvent
    /\ stopEvent' = TRUE
    /\ UNCHANGED <<pc, state, scan_retry, join_retry, requests,
                   lasttime_receive, coefficient, unit, effective_digits,
                   record_que, blocked, serOpen, scanresult, cachefile, clock,
                   hist, cvars>>

\* the while loop of run() ends: self._term().  Writing to a serial port
\* that is not open raises
Exit ==
    /\ pc = "loop"
    /\ stopEvent
    /\ blocked = <<>>
    /\ \E t \in TermResults :
        LET crashed == ~serOpen \/ t.raised
        IN  /\ serOpen \/ t = term(TYPE, <<>>)
            /\ pc' = IF crashed THEN "crashed" ELSE "stopped"
            /\ serOpen' = IF crashed THEN serOpen ELSE FALSE
            /\ hist' = HistStep(IF crashed THEN "crash" ELSE "exit",
                                IF crashed THEN <<"term">> ELSE <<"term", "close">>)
    /\ UNCHANGED <<stopEvent, state, scan_retry, join_retry, requests,
                   lasttime_receive, coefficient, unit, effective_digits,
                   record_que, blocked, scanresult, cachefile, clock, cvars>>

Next ==
    \/ Open
    \/ Setup
    \/ Scan
    \/ Join(Deltas, StartClock + Horizon)
    \/ Steady(Deltas, StartClock + Horizon)
    \/ Put
    \/ Consume
    \/ SetStop
    \/ Exit

Spec == Init /\ [][Next]_vars

\* the same program with its threads scheduled: a put that has room in the
\* queue returns, the consumer takes a record that is there, and run()
\* reaches the test of its while loop and, the stop event set, self._term()
SpecLive == Spec /\ WF_vars(Put) /\ WF_vars(Consume) /\ WF_vars(Exit)

\* the same program polling the one request of 10 s, over a short run
InitPoll ==
    /\ SessionInit(RequestsPoll)
    /\ cachefile \in CacheFiles0
    /\ CodecIdle

NextPoll ==
    \/ Open
    \/ Setup
    \/ Scan
    \/ Join(PollDeltas, StartClock + PollHorizon)
    \/ Steady(PollDeltas, StartClock + PollHorizon)
    \/ Put
    \/ Consume
    \/ SetStop
    \/ Exit

SpecPoll == InitPoll /\ [][NextPoll]_vars

-----------------------------------------------------------------------------
(* DataFrame.decode called on its own: arg_length and arg_data are the     *)
(* arguments of the call, result what it returned                          *)

\* the longest run of bytes after the property count of an argument
MaxTail == 4

\* the 11 bytes before the property count: EHD, TID, SEOJ, DEOJ, ESV
DecodeHeader ==
    <<"1","0","8","1","0","0","0","1","0","2","8","8","0","1",
      "0","5","F","F","0","1","7","2">>

\* the bytes the arguments are made of; 0G is not hexadecimal
DecodeBytes ==
    {<<"E","7">>, <<"0","0">>, <<"0","1">>, <<"0","2">>, <<"0","G">>}

\* the property counts of the arguments
DecodeOpcs == {<<"0","0">>, <<"0","1">>, <<"0","2">>}

RECURSIVE TailsOf(_)
\* the runs of n bytes
TailsOf(n) ==
    IF n = 0 THEN {<<>>}
    ELSE {b \o t : b \in DecodeBytes, t \in TailsOf(n - 1)}

\* the values of encoded_data: a header cut short, or a whole header, a
\* property count and up to MaxTail bytes
DecodePayloads ==
    {Slice(DecodeHeader, 0, k) : k \in {0, 4, 22}}
    \cup {DecodeHeader \o opc \o t :
              opc \in DecodeOpcs, t \in UNION {TailsOf(n) : n \in 0..MaxTail}}

\* the values of length for encoded_data: its number of bytes, or one more
DecodeLengths(encoded_data) ==
    {Fmt04X(Len(encoded_data) \div 2), Fmt04X(Len(encoded_data) \div 2 + 1)}

InitDecode ==
    /\ SessionInit(Requests0)
    /\ cachefile = NoFile
    /\ arg_type = TYPE
    /\ arg_data \in DecodePayloads
    /\ arg_length \in DecodeLengths(arg_data)
    /\ result = NoResult

\* DataFrame.decode(arg_length, arg_data) returns
Decode ==
    /\ ~result.done
    /\ result' = [result EXCEPT !.done = TRUE,
                                !.frame = decode(arg_length, arg_data)]
    /\ UNCHANGED <<svars, arg_type, arg_length, arg_data>>

\* the frame the call returned is encoded: result.frame.encode()
Encode ==
    /\ result.done
    /\ result.frame.valid
    /\ ~result.encoded
    /\ result' = [result EXCEPT !.encoded = TRUE, !.data = encode(result.frame)]
    /\ UNCHANGED <<svars, arg_type, arg_length, arg_data>>

NextDecode ==
    \/ Decode
    \/ Encode

SpecDecode == InitDecode /\ [][NextDecode]_vars

-----------------------------------------------------------------------------
(* DataFrame.cmd_get_property called on its own: arg_data is the list of   *)
(* property codes, result the frame it returned                            *)

\* the longest list of property codes
MaxCodes == 3

\* the property codes of the lists
RequestCodes == {S_E7, S_E8, S_E0, S_D3}

\* the values of epc_list
RequestLists == UNION {[1..n -> RequestCodes] : n \in 0..MaxCodes}

InitRequest ==
    /\ SessionInit(Requests0)
    /\ cachefile = NoFile
    /\ arg_type = TYPE
    /\ arg_length = <<>>
    /\ arg_data \in RequestLists
    /\ result = NoResult

\* DataFrame.cmd_get_property(arg_data) returns
Build ==
    /\ ~result.done
    /\ result' = [result EXCEPT !.done = TRUE,
                                !.frame = cmd_get_property(arg_data)]
    /\ UNCHANGED <<svars, arg_type, arg_length, arg_data>>

NextRequest ==
    \/ Build
    \/ Encode

SpecRequest == InitRequest /\ [][NextRequest]_vars

-----------------------------------------------------------------------------
(* WiSunRL7023._parse_event called on its own: arg_data are the fields of  *)
(* the line the device sent, arg_type the type of the driver, result.event *)
(* the event returned                                                      *)

\* the fields of an ERXUDP line of a single-stack device: ERXUDP, SENDER,
\* DEST, RPORT, LPORT, SENDERLLA, SECURED, DATALEN, DATA
ErxudpFields ==
    << S_ERXUDP,
       <<"F","E","8","0",":","0","0","0","0",":","0","0","0","0",":","0","0","0","0",":","0","2","1","D",":","1","2","9","0",":","1","2","3","4",":","5","6","7","8">>,
       <<"F","E","8","0",":","0","0","0","0",":","0","0","0","0",":","0","0","0","0",":","0","2","1","D",":","1","2","9","0",":","0","0","0","3",":","C","8","9","0">>,
       <<"0","E","1","A">>, <<"0","E","1","A">>,
       <<"0","0","1","D","1","2","9","0","1","2","3","4","5","6","7","8">>,
       <<"1">>, <<"0","0","1","2">>,
       <<"1","0","8","1","0","0","0","1","0","2","8","8","0","1","0","5","F","F","0","1","7","2","0","1","E","7","0","4","0","0","0","0","0","1","F","4">> >>

\* the same with the field SIDE of a dual-stack device
ErxudpFieldsSide == SubSeq(ErxudpFields, 1, 7) \o <<<<"0">>>> \o SubSeq(ErxudpFields, 8, 9)

\* what a field may be replaced by: a token with a character that is no
\* uppercase hex digit, a shorter and a longer token, and another keyword
FieldVariants(tok) ==
    { [tok EXCEPT ![Len(tok)] = "G"], [tok EXCEPT ![Len(tok)] = "a"],
      SubSeq(tok, 1, Len(tok) - 1), tok \o <<"0">>, S_EVENT } \ {<<>>}

\* the field lists of the lines: the two well-formed ones, and each with one
\* field replaced, one field left out, or one field added
ParseFields ==
    UNION { {base}
            \cup UNION {{[base EXCEPT ![i] = t] : t \in FieldVariants(base[i])}
                           : i \in 1..Len(base)}
            \cup {SubSeq(base, 1, i - 1) \o SubSeq(base, i + 1, Len(base)) : i \in 1..Len(base)}
            \cup {base \o <<<<"0">>>>}
          : base \in {ErxudpFields, ErxudpFieldsSide} }

RECURSIVE JoinFields(_)
\* the line with these fields, a space between two fields
JoinFields(fields) ==
    IF fields = <<>> THEN <<>>
    ELSE IF Len(fields) = 1 THEN fields[1]
    ELSE fields[1] \o <<" ">> \o JoinFields(Tail(fields))

InitParse ==
    /\ SessionInit(Requests0)
    /\ cachefile = NoFile
    /\ arg_type \in {IPS, DSS}
    /\ arg_length = <<>>
    /\ arg_data \in ParseFields
    /\ result = NoResult

\* _parse_event(line) returns, line being the line read, stripped as
\* _get_event does
Parse ==
    /\ ~result.done
    /\ result' = [result EXCEPT
                      !.done = TRUE,
                      !.event = _parse_event(arg_type,
                                    Strip(JoinFields(arg_data) \o <<"\r", "\n">>))]
    /\ UNCHANGED <<svars, arg_type, arg_length, arg_data>>

NextParse == Parse

SpecParse == InitParse /\ [][NextParse]_vars

-----------------------------------------------------------------------------
(* WiSunRL7023.sendto and join called on their own: arg_data are the lines *)
(* the device sends during the call, followed by silence; result.ok is     *)
(* what the call returned, result.raised whether it raised instead         *)

\* the most pieces a run of lines is made of
MaxPieces == 3

\* the pieces: one line, or 10 or 11 reads that time out
Pieces ==
    { <<L_OK>>, <<L_EV21>>, <<L_EV24>>, <<L_EV25>>, <<L_FAIL>>, <<L_ERXUDP_E7>>,
      <<L_OK_HIGH>>, <<L_HIGH>>, Silence(10), Silence(11) }

RECURSIVE RunsOf(_)
\* the runs of lines made of n pieces
RunsOf(n) ==
    IF n = 0 THEN {<<>>}
    ELSE {p \o r : p \in Pieces, r \in RunsOf(n - 1)}

InitOps ==
    /\ SessionInit(Requests0)
    /\ cachefile = NoFile
    /\ arg_type \in {IPS, DSS}
    /\ arg_length = <<>>
    /\ arg_data \in UNION {RunsOf(n) : n \in 0..MaxPieces}
    /\ result = NoResult

\* sendto(dataframe) returns or raises
Send ==
    /\ ~result.done
    /\ \E r \in {sendto(arg_data)} :
           result' = [result EXCEPT !.done = TRUE, !.op = "sendto",
                                    !.ok = r.ok, !.raised = r.raised]
    /\ UNCHANGED <<svars, arg_type, arg_length, arg_data>>

\* join() returns or raises
JoinCall ==
    /\ ~result.done
    /\ \E r \in {join(arg_type, arg_data)} :
           result' = [result EXCEPT !.done = TRUE, !.op = "join",
                                    !.ok = r.ok, !.raised = r.raised]
    /\ UNCHANGED <<svars, arg_type, arg_length, arg_data>>

\* _wait_ok() returns; result.value is the number of lines it read of arg_data
WaitCall ==
    /\ ~result.done
    /\ \E r \in {_wait_ok(arg_data)} :
           result' = [result EXCEPT !.done = TRUE, !.op = "_wait_ok",
                                    !.ok = r.ok, !.raised = r.raised,
                                    !.value = Len(arg_data) - Len(r.rest)]
    /\ UNCHANGED <<svars, arg_type, arg_length, arg_data>>

NextOps ==
    \/ Send
    \/ JoinCall
    \/ WaitCall

SpecOps == InitOps /\ [][NextOps]_vars

-----------------------------------------------------------------------------
(* WiSunRL7023.scan and _scancache called on their own: cachefile is       *)
(* scancache.json before the call, arg_data the lines the device sends     *)
(* during it; the call leaves its result in scanresult                     *)

\* the age in seconds of scancache.json when the call reads the clock
CacheAges == {0, 60, CacheMaxAge - 1, CacheMaxAge, CacheMaxAge + 1}

\* scancache.json: missing, unreadable, or holding some of the keys
CacheFiles ==
    {NoFile}
    \cup { [exists |-> TRUE, mtime |-> StartClock - a, readable |-> FALSE, keys |-> {}] :
             a \in CacheAges }
    \cup { [exists |-> TRUE, mtime |-> StartClock - a, readable |-> TRUE, keys |-> k] :
             a \in CacheAges, k \in SUBSET (RequiredKeys \cup {K_LQI}) }

\* the lines of the device during scan()
ScanCallScripts ==
    ScanScripts
    \cup { Silence(_TIMEOUT_MAX + 1),
           <<L_OK>> \o Silence(_TIMEOUT_SCAN + 1),
           <<L_OK, L_EV20, L_EPANDESC, L_CHANNEL, L_PANID, L_ADDR, L_EV22,
             L_OK, L_OK, L_ECHO, L_HIGH>>,
           <<L_OK, L_OK, L_ECHO, L_HIGH>> }

InitCache ==
    /\ SessionInit(Requests0)
    /\ cachefile \in CacheFiles
    /\ arg_type = TYPE
    /\ arg_length = <<>>
    /\ arg_data \in ScanCallScripts
    /\ result = NoResult

\* self.scanresult = self._scancache()
LoadCall ==
    /\ ~result.done
    /\ \E c \in {_scancache(cachefile, clock)} :
           /\ scanresult' = c.data
           /\ cachefile' = c.file
    /\ result' = [result EXCEPT !.done = TRUE, !.op = "_scancache"]
    /\ UNCHANGED <<pc, stopEvent, state, scan_retry, join_retry, requests,
                   lasttime_receive, coefficient, unit, effective_digits,
                   record_que, blocked, serOpen, clock, hist,
                   arg_type, arg_length, arg_data>>

\* scan() returns or raises
ScanCall ==
    /\ ~result.done
    /\ \E r \in {scan(arg_data, cachefile, clock)} :
           /\ scanresult' = r.scanresult
           /\ cachefile' = r.file
           /\ result' = [result EXCEPT !.done = TRUE, !.op = "scan", !.ok = r.ok,
                                       !.raised = r.raised, !.active = r.active]
    /\ UNCHANGED <<pc, stopEvent, state, scan_retry, join_retry, requests,
                   lasttime_receive, coefficient, unit, effective_digits,
                   record_que, blocked, serOpen, clock, hist,
                   arg_type, arg_length, arg_data>>

NextCache ==
    \/ LoadCall
    \/ ScanCall

SpecCache == InitCache /\ [][NextCache]_vars

-----------------------------------------------------------------------------
(* hex_to_signed_int called on its own: arg_data is the hex string,        *)
(* result.value the integer returned                                       *)

\* the digit counts of the 8-, 16- and 32-bit fields
FieldDigits == {2, 4, 8}

\* the first digit of a string, and the digits after it
SignedDigits == {"0", "1", "7", "8", "F"}
TailDigits == {"0", "1", "F"}

RECURSIVE TailStrings(_)
TailStrings(n) ==
    IF n = 0 THEN {<<>>}
    ELSE {<<d>> \o t : d \in TailDigits, t \in TailStrings(n - 1)}

\* the strings of n digits
DigitStrings(n) == {<<d>> \o t : d \in SignedDigits, t \in TailStrings(n - 1)}

InitSigned ==
    /\ SessionInit(Requests0)
    /\ cachefile = NoFile
    /\ arg_type = TYPE
    /\ arg_length = <<>>
    /\ arg_data \in UNION {DigitStrings(n) : n \in FieldDigits}
    /\ result = NoResult

\* hex_to_signed_int(arg_data) returns
Convert ==
    /\ ~result.done
    /\ result' = [result EXCEPT !.done = TRUE, !.op = "hex_to_signed_int",
                                !.value = hex_to_signed_int(arg_data)]
    /\ UNCHANGED <<svars, arg_type, arg_length, arg_data>>

NextSigned == Convert

SpecSigned == InitSigned /\ [][NextSigned]_vars

-----------------------------------------------------------------------------
(* BrouteReader._accept called on its own, on one response after another:  *)
(* arg_data are the properties of the response, result.records the records *)
(* the call put, result.value the number of calls so far                    *)

\* the most responses accepted
MaxCalls == 2

\* the properties a response is made of: unit codes the chain of _accept
\* knows (00, 02, 0B, 0D) and does not know (05, FF), a coefficient, an
\* energy reading and a reading on the half hour with its date and time
AcceptProperties ==
    { <<S_E1, <<"0","0">>>>, <<S_E1, <<"0","2">>>>, <<S_E1, <<"0","B">>>>,
      <<S_E1, <<"0","D">>>>, <<S_E1, <<"0","5">>>>, <<S_E1, <<"F","F">>>>,
      <<S_D3, <<"0","0","0","0","0","0","0","A">>>>,
      <<S_E0, <<"0","0","0","0","0","0","6","4">>>>,
      <<S_EA, <<"0","7","E","8","0","3","0","F","0","C","1","E","0","0",
                "0","0","0","0","0","1","2","C">>>> }

\* the property lists of the responses: one property, or two of different
\* codes (the properties of a DataFrame are a dict keyed by the code)
AcceptFrames ==
    { <<p>> : p \in AcceptProperties }
    \cup { f \in { <<p, q>> : p \in AcceptProperties, q \in AcceptProperties } :
               f[1][1] # f[2][1] }

InitAccept ==
    /\ SessionInit(Requests0)
    /\ cachefile = NoFile
    /\ arg_type = TYPE
    /\ arg_length = <<>>
    /\ arg_data = <<>>
    /\ result = NoResult

\* self._accept(dataframe) on a response of the meter (ESV 72) returns or
\* raises; a raise ends the thread of run()
Accept ==
    /\ pc = "loop"
    /\ result.value < MaxCalls
    /\ \E f \in AcceptFrames :
        \E a \in {_accept([NoFrame EXCEPT !.valid = TRUE, !.seoj = S_METER,
                                          !.esv = S_72, !.properties = f],
                          coefficient, unit, effective_digits)} :
            /\ arg_data' = f
            /\ coefficient' = a.coefficient
            /\ unit' = a.unit
            /\ effective_digits' = a.effective_digits
            /\ pc' = IF a.raised THEN "crashed" ELSE pc
            /\ result' = [result EXCEPT !.done = TRUE, !.op = "_accept",
                                        !.raised = a.raised, !.records = a.records,
                                        !.value = @ + 1]
    /\ UNCHANGED <<stopEvent, state, scan_retry, join_retry, requests,
                   lasttime_receive, record_que, blocked, serOpen, scanresult,
                   cachefile, clock, hist, arg_type, arg_length>>

NextAccept == Accept

SpecAccept == InitAccept /\ [][NextAccept]_vars

-----------------------------------------------------------------------------
(* DataFrame.cmd_get_property called again and again: result.value is the  *)
(* class attribute DataFrame.TID, arg_data the codes of the last call,      *)
(* result.frame the frame it built, result.data the transaction ids of all  *)
(* the frames built so far                                                  *)

\* the most frames built
MaxBuilds == 2

InitTid ==
    /\ SessionInit(Requests0)
    /\ cachefile = NoFile
    /\ arg_type = TYPE
    /\ arg_length = <<>>
    /\ arg_data = <<>>
    /\ result = [NoResult EXCEPT !.value = TID]

\* DataFrame.cmd_get_property(epc_list) returns: df.tid is formatted from
\* the value cls.TID has at the call
Request ==
    /\ Len(result.data) < MaxBuilds
    /\ \E epc_list \in RequestLists :
        \E df \in {[cmd_get_property(epc_list) EXCEPT !.tid = Fmt04X(result.value)]} :
            /\ arg_data' = epc_list
            /\ result' = [result EXCEPT !.done = TRUE, !.op = "cmd_get_property",
                                        !.frame = df,
                                        !.data = Append(@, df.tid),
                                        !.value = TIDAfter(@)]
    /\ UNCHANGED <<svars, arg_type, arg_length>>

NextTid == Request

SpecTid == InitTid /\ [][NextTid]_vars

-----------------------------------------------------------------------------
(* One stream of lines for the whole JOIN iteration: what sendto leaves    *)
(* unread is what receive and term read.                                   *)

\* the number of chunks of lines the device emits
MaxChunks == 4

\* the chunks: the answer to a send (with or without EVENT 21, with or
\* without a datagram of the meter arriving first), a datagram of the meter,
\* the answer to SKTERM
Chunks ==
    { <<L_EV21, L_OK>>, <<L_ERXUDP_E7, L_EV21, L_OK>>, <<L_OK>>,
      <<L_ERXUDP_E7>>, <<L_ERXUDP_D3>>, <<L_OK, L_EV27>> }

RECURSIVE StreamsOf(_)
StreamsOf(n) ==
    IF n = 0 THEN {<<>>}
    ELSE {c \o r : c \in Chunks, r \in StreamsOf(n - 1)}

\* seconds that pass before an iteration reads the clock
StreamDeltas == {0, 301, WatchdogTimeout + 1}

\* res.startswith("ERXUDP")
IsDatagram(line) == Slice(line, 0, 6) = <<"E","R","X","U","D","P">>

\* a send putting the datagrams it read back in front of the unread lines
StreamAfterSend_requeue(s, r) ==
    SelectSeq(SubSeq(s, 1, Len(s) - Len(r.rest)), IsDatagram) \o r.rest

\* the lines left unread when sendto returned r on the lines s: every line
\* its readline() returned is gone
StreamAfterSend(s, r) == r.rest

RECURSIVE PollStream(_, _, _)
\* the for loop over self.requests from request i on, the sends reading the
\* lines a.rest one after the other
PollStream(i, now, a) ==
    IF i > Len(a.requests) \/ a.raised THEN a
    ELSE IF PollDue(a.requests[i], now)
    THEN LET r == sendto(a.rest)
         IN  IF r.raised THEN [a EXCEPT !.raised = TRUE, !.rest = r.rest]
             ELSE PollStream(i + 1, now,
                      [a EXCEPT !.requests[i].lasttime =
                                    SendAdvance(r.ok, @, a.requests[i].cycle, now),
                                !.sent = @ \cup {i},
                                !.failed = IF r.ok THEN @ ELSE @ \cup {i},
                                !.rest = StreamAfterSend(a.rest, r)])
    ELSE PollStream(i + 1, now, a)

\* the session right after a join at StartClock, the device about to emit
\* the lines arg_data
InitStream ==
    /\ pc = "loop"
    /\ stopEvent = FALSE
    /\ state = _STATE_JOIN
    /\ scan_retry = 0
    /\ join_retry = 0
    /\ requests = Requests0
    /\ lasttime_receive = StartClock
    /\ coefficient = 1
    /\ unit = -1
    /\ effective_digits = 6
    /\ record_que = <<>>
    /\ blocked = <<>>
    /\ serOpen = TRUE
    /\ \E r \in {scan(<<L_OK, L_EV20, L_EPANDESC, L_CHANNEL, L_PANID, L_ADDR,
                         L_EV22, L_OK, L_OK, L_ECHO, L_LL64>>, NoFile, StartClock)} :
           /\ scanresult = r.scanresult
           /\ cachefile = r.file
    /\ clock = StartClock
    /\ hist = [Hist0 EXCEPT !.last = "join_ok", !.ops = <<"join">>,
                            !.t_last = StartClock,
                            !.sends = [i \in 1..Len(Requests0) |-> 0],
                            !.first_sent = [i \in 1..Len(Requests0) |-> 0]]
    /\ arg_type = TYPE
    /\ arg_length = <<>>
    /\ arg_data \in UNION {StreamsOf(n) : n \in 0..MaxChunks}
    /\ result = NoResult

\* state JOIN: one iteration of the steady state on the lines arg_data.
\* result.data is the line receive() read, result.value the number of
\* datagrams the sends and term() read, result.records what _accept put
Iterate ==
    /\ Looping
    /\ state = _STATE_JOIN
    /\ \E d1 \in StreamDeltas, d2 \in {0, 1} :
        \E now1 \in {clock + d1} :
        \E p \in {PollStream(1, now1, [requests |-> requests, sent |-> {},
                                        failed |-> {}, raised |-> FALSE,
                                        rest |-> arg_data])} :
        \E rx \in {IF p.raised THEN receive(TYPE, <<>>) ELSE receive(TYPE, p.rest)} :
        \E got \in {~p.raised /\ ~rx.raised /\ rx.frame.valid} :
        \E a \in {IF got THEN _accept(rx.frame, coefficient, unit, effective_digits)
                  ELSE NoAccept(coefficient, unit, effective_digits)} :
        \E now2 \in {IF got THEN now1 + d2 ELSE now1} :
        \E lr \in {LasttimeReceive(got, now2, lasttime_receive)} :
        \E alive \in {~p.raised /\ ~rx.raised /\ ~a.raised} :
        \E expired \in {alive /\ WatchdogExpired(now2, lr)} :
        \E t \in {IF expired THEN term(TYPE, rx.rest) ELSE term(TYPE, <<>>)} :
        \E left \in {IF p.raised THEN p.rest ELSE IF expired THEN t.rest ELSE rx.rest} :
        \E crashed \in {~alive \/ (expired /\ t.raised)} :
            /\ now1 + d2 <= StartClock + Horizon
            /\ got \/ d2 = 0
            /\ clock' = now2
            /\ requests' = p.requests
            /\ lasttime_receive' = lr
            /\ coefficient' = a.coefficient
            /\ unit' = a.unit
            /\ effective_digits' = a.effective_digits
            /\ pc' = IF crashed THEN "crashed" ELSE pc
            /\ state' = IF expired /\ ~t.raised THEN _watchdog_state ELSE state
            /\ serOpen' = IF expired /\ ~t.raised THEN FALSE ELSE serOpen
            /\ arg_data' = left
            /\ result' = [result EXCEPT
                   !.done = TRUE, !.op = "receive",
                   !.data = IF p.raised \/ p.rest = <<>> THEN <<>> ELSE Head(p.rest),
                   !.frame = rx.frame,
                   !.raised = crashed,
                   !.records = a.records,
                   !.value = Len(SelectSeq(SubSeq(arg_data, 1,
                                                  Len(arg_data) - Len(left)),
                                           IsDatagram))
                             - (IF ~p.raised /\ p.rest # <<>> /\ IsDatagram(Head(p.rest))
                                THEN 1 ELSE 0)]
            /\ hist' = [HistStep(IF crashed THEN "crash"
                                 ELSE IF expired THEN "watchdog" ELSE "steady",
                                 [k \in 1..Cardinality(p.sent) |-> "sendto"]
                                 \o (IF p.raised THEN <<"sendto">> ELSE <<"receive">>)
                                 \o (IF got THEN <<"_accept">> ELSE <<>>)
                                 \o (IF expired
                                     THEN IF t.raised THEN <<"term">>
                                          ELSE <<"term", "close">>
                                     ELSE <<>>))
                        EXCEPT !.now = now1,
                               !.failed = p.failed,
                               !.t_last = IF got THEN now2 ELSE @,
                               !.wd_count = IF expired THEN @ + 1 ELSE @,
                               !.sends = [i \in 1..NumRequests |->
                                   IF i \in p.sent THEN @[i] + 1 ELSE @[i]],
                               !.first_sent = [i \in 1..NumRequests |->
                                   IF i \in p.sent /\ hist.sends[i] = 0 THEN now1
                                   ELSE @[i]]]
    /\ UNCHANGED <<stopEvent, scan_retry, join_retry, record_que, blocked,
                   scanresult, cachefile, arg_type, arg_length>>

NextStream == Iterate

SpecStream == InitStream /\ [][NextStream]_vars

-----------------------------------------------------------------------------
(* InfluxDBUpdater: the consumer of the records.  arg_data is what the     *)
(* queue hands out, in order; result.data is the local variable body (<<>> *)
(* while it is unbound), result.records the points written so far.         *)

\* the number of responses whose records the consumer is handed
MaxFrames == 2

\* the properties of the responses: instantaneous power (500 W, -200 W),
\* instantaneous currents, cumulative energy, coefficient
InfluxProperties ==
    { <<S_E7, <<"0","0","0","0","0","1","F","4">>>>,
      <<S_E7, <<"F","F","F","F","F","F","3","8">>>>,
      <<S_E8, <<"0","0","1","E","0","0","1","4">>>>,
      <<S_E0, <<"0","0","0","0","0","0","6","4">>>>,
      <<S_D3, <<"0","0","0","0","0","0","0","1">>>> }

InfluxFrames ==
    { <<p>> : p \in InfluxProperties }
    \cup { f \in { <<p, q>> : p \in InfluxProperties, q \in InfluxProperties } :
               f[1][1] # f[2][1] }

\* the records _accept puts for a response with these properties
RecordsOf(f) ==
    _accept([NoFrame EXCEPT !.valid = TRUE, !.seoj = S_METER, !.esv = S_72,
                            !.properties = f], 1, -1, 6).records

RECURSIVE RecordRuns(_)
RecordRuns(n) ==
    IF n = 0 THEN {<<>>}
    ELSE {RecordsOf(f) \o r : f \in InfluxFrames, r \in RecordRuns(n - 1)}

RECURSIVE Pow10(_)
Pow10(n) == IF n = 0 THEN 1 ELSE 10 * Pow10(n - 1)

\* round(value, 4): to the nearest multiple of 0.0001, ties to even
Round4(v) ==
    IF v.e >= -4 THEN v
    ELSE LET d == Pow10(-4 - v.e)
             q == v.m \div d
             r == v.m % d
         IN  Num(IF 2 * r > d \/ (2 * r = d /\ q % 2 = 1) THEN q + 1 ELSE q, -4)

\* a point of the body handed to write_points
Point(measurement, value) == [measurement |-> measurement, value |-> value]

\* the if / elif on sensor: body after it, given body before it
InfluxBody(record, body) ==
    IF record.sensor = S_E7 THEN <<Point("power", Round4(record.value))>>
    ELSE IF record.sensor = S_E8 THEN <<Point("currents", record.value)>>
    ELSE body

InitInflux ==
    /\ SessionInit(Requests0)
    /\ cachefile = NoFile
    /\ arg_type = TYPE
    /\ arg_length = <<>>
    /\ arg_data \in UNION {RecordRuns(n) : n \in 0..MaxFrames}
    /\ result = NoResult

\* one iteration of the loop of InfluxDBUpdater.run() that got a record:
\* logger.debug(body) raises NameError while body is unbound, and the bare
\* except goes on to the next iteration; otherwise body is written
Update ==
    /\ arg_data # <<>>
    /\ \E body \in {InfluxBody(Head(arg_data), result.data)} :
           result' = [result EXCEPT
                          !.done = TRUE, !.op = "run",
                          !.data = body,
                          !.raised = body = <<>>,
                          !.records = IF body = <<>> THEN @ ELSE @ \o body,
                          !.value = @ + 1]
    /\ arg_data' = Tail(arg_data)
    /\ UNCHANGED <<svars, arg_type, arg_length>>

NextInflux == Update

SpecInflux == InitInflux /\ [][NextInflux]_vars

-----------------------------------------------------------------------------
(* Properties of the session state machine *)

\* C1: the session starts in INIT, and every step leaves the state as it
\* is, advances it by exactly one along INIT, OPEN, SETUP, SCAN, JOIN, or
\* returns it to INIT
C1_StateTransitions ==
    /\ state = _STATE_INIT
    /\ [][\/ state' = state
          \/ state < _STATE_JOIN /\ state' = state + 1
          \/ state' = _STATE_INIT]_vars

\* the watchdog has taken the session from JOIN back to INIT
C1_Witness ==
    /\ hist.last = "watchdog"
    /\ state = _STATE_INIT
    /\ hist.wd_count = 1

\* C2 as stated: after 5 consecutive failed scans from SETUP the session is
\* in INIT, the driver closed and the scan cache file gone
C2_Original ==
    (hist.last = "scan_fail" /\ hist.fails = 5) =>
        (state = _STATE_INIT /\ ~serOpen /\ ~cachefile.exists)

\* C2 amended: the sixth consecutive failed scan from SETUP takes the
\* session to INIT with the driver closed and the counter back at zero, and
\* leaves a complete scan cache file in place; an earlier one leaves the
\* session in SETUP with the driver open
C2_ScanExhaustion ==
    [][(state = _STATE_SETUP /\ hist' # hist /\ hist'.last = "scan_fail") =>
          IF hist'.fails = 6
          THEN /\ state' = _STATE_INIT
               /\ ~serOpen'
               /\ scan_retry' = 0
               /\ (cachefile.exists /\ cachefile.keys = RequiredKeys)
                      => cachefile'.exists
          ELSE /\ hist'.fails < 6
               /\ state' = _STATE_SETUP
               /\ scan_retry' = hist'.fails
               /\ serOpen']_vars

\* six scans have failed in a row and the scan cache file is still there
C2_Witness ==
    /\ hist.last = "scan_fail"
    /\ hist.fails = 6
    /\ state = _STATE_INIT
    /\ ~serOpen
    /\ cachefile.exists

\* C3 as stated: 5 consecutive failed joins from SCAN take the session to
\* INIT with the driver closed, fewer leave it in SCAN
C3_Original ==
    hist.last = "join_fail" =>
        /\ hist.fails = 5 => (state = _STATE_INIT /\ ~serOpen)
        /\ hist.fails < 5 => state = _STATE_SCAN

\* C3 amended: 6 consecutive failed joins from SCAN take the session to
\* INIT with the driver closed, fewer leave it in SCAN
C3_JoinExhaustion ==
    hist.last = "join_fail" =>
        IF hist.fails = 6
        THEN state = _STATE_INIT /\ ~serOpen /\ join_retry = 0
        ELSE hist.fails < 6 /\ state = _STATE_SCAN /\ join_retry = hist.fails

\* six joins have failed in a row
C3_Witness ==
    /\ hist.last = "join_fail"
    /\ hist.fails = 6
    /\ state = _STATE_INIT

\* C4: in the state a successful join results in, the session is in JOIN
\* and both retry counters are zero
C4_JoinResetsCounters ==
    hist.last = "join_ok" =>
        (state = _STATE_JOIN /\ scan_retry = 0 /\ join_retry = 0)

\* a join has succeeded after five failed ones
C4_Witness ==
    /\ hist.last = "join_ok"
    /\ hist.fails = 5
    /\ state = _STATE_JOIN

\* C5 as stated: an iteration of JOIN calls term only when more than 600 s
\* have passed since the later of the join and the last frame received, and
\* then it calls close after term, the state becomes INIT, and it is the
\* only watchdog reset since the join
C5_Original ==
    LET ops == hist.ops
        fired == \E k \in DOMAIN ops :
                     ops[k] = "term" /\ \E j \in 1..(k - 1) : ops[j] = "receive"
    IN  fired =>
            /\ clock - hist.t_last > 600
            /\ ops[Len(ops)] = "close"
            /\ ops[Len(ops) - 1] = "term"
            /\ state = _STATE_INIT
            /\ ~serOpen
            /\ hist.wd_count = 1

\* C6: no step changes the cycle of a request; a step that sends a request
\* for the first time sets its lasttime to the time the step read, one that
\* sends it again adds one cycle, and no other step changes lasttime; so
\* from the first send on lasttime is the time of the first send plus a
\* whole number of cycles, one fewer than the sends
C6_PollLasttime ==
    /\ [](\A i \in 1..NumRequests :
             hist.sends[i] >= 1 =>
                 requests[i].lasttime =
                     hist.first_sent[i] + requests[i].cycle * (hist.sends[i] - 1))
    /\ [][\A i \in 1..NumRequests :
             /\ requests'[i].cycle = requests[i].cycle
             /\ requests'[i].lasttime >= requests[i].lasttime
             /\ IF hist'.sends[i] = hist.sends[i]
                THEN requests'[i].lasttime = requests[i].lasttime
                ELSE /\ hist'.sends[i] = hist.sends[i] + 1
                     /\ requests'[i].lasttime =
                            IF hist.sends[i] = 0 THEN hist'.now
                            ELSE requests[i].lasttime + requests[i].cycle]_vars

\* the request of 300 s has just been sent a second or later time, and its
\* lasttime is behind the time the step read
C6_Witness ==
    /\ hist.last = "steady"
    /\ hist.ops[1] = "sendto"
    /\ hist.sends[2] >= 2
    /\ requests[2].lasttime = hist.first_sent[2] + 300 * (hist.sends[2] - 1)
    /\ requests[2].lasttime < hist.now

\* C7 as stated, time counted from the first send: after N sends of the
\* request of 10 s its lasttime is 10 * N
C7_Original ==
    hist.sends[1] >= 1 =>
        requests[1].lasttime - hist.first_sent[1] = 10 * hist.sends[1]

\* C7 amended, time counted from the first send: after N sends of the
\* request of 10 s its lasttime is 10 * (N - 1), which is the time of the
\* send for the first send and earlier than the time of the send for every
\* later one
C7_PollNoDrift ==
    /\ [](hist.sends[1] >= 1 =>
             requests[1].lasttime - hist.first_sent[1] = 10 * (hist.sends[1] - 1))
    /\ [][hist'.sends[1] # hist.sends[1] =>
             IF hist.sends[1] = 0
             THEN requests'[1].lasttime = hist'.now
             ELSE requests'[1].lasttime < hist'.now]_vars

\* the request of 10 s has been sent three times, the last one late
C7_Witness ==
    /\ hist.sends[1] = 3
    /\ hist.ops[1] = "sendto"
    /\ requests[1].lasttime = hist.first_sent[1] + 20
    /\ hist.now > requests[1].lasttime + 1

\* C8 as stated: the step that takes the session from OPEN to SETUP is one
\* in which reset and setup both succeeded, and a step in which one of them
\* failed leaves the session in OPEN
C8_Original ==
    /\ hist.last = "setup_ok" => (hist.reset_ok /\ hist.setup_ok)
    /\ hist.last = "setup_fail" => state = _STATE_OPEN

\* C9 as stated: the session loop never ends in an exception raised by
\* receive
C9_Original ==
    ~(/\ hist.last = "crash"
      /\ hist.ops # <<>>
      /\ hist.ops[Len(hist.ops)] = "receive")

-----------------------------------------------------------------------------
(* Properties of DataFrame.decode *)

\* C10 as stated: decode returns a frame only when the payload has the
\* declared number of bytes, is hexadecimal, holds the header and the
\* property count, and holds each of the properties it counts whole: code,
\* length byte and a value of that length
C10_Original ==
    LET RECURSIVE Whole(_, _)
        Whole(base, count) ==
            IF count = 0 THEN TRUE
            ELSE /\ base + 4 <= Len(arg_data)
                 /\ LET pdc == HexToInt(Slice(arg_data, base + 2, base + 4))
                    IN  /\ base + 4 + 2 * pdc <= Len(arg_data)
                        /\ Whole(base + 4 + 2 * pdc, count - 1)
    IN  (result.done /\ result.frame.valid) =>
            /\ Len(arg_data) = 2 * HexToInt(arg_length)
            /\ is_hex(arg_data, 0)
            /\ Len(arg_data) >= 24
            /\ Whole(24, HexToInt(Slice(arg_data, 22, 24)))

-----------------------------------------------------------------------------
(* Properties of the frame codec *)

\* C11: a payload that is well formed (it has the declared number of bytes,
\* is hexadecimal, and holds the header, the property count and exactly
\* that many whole properties with distinct codes and nothing after them)
\* is decoded to a frame, and encoding that frame gives the payload back
C11_RoundTrip ==
    LET n == Len(arg_data)
        RECURSIVE Exact(_, _, _)
        Exact(base, count, seen) ==
            IF count = 0 THEN base = n
            ELSE /\ base + 4 <= n
                 /\ Slice(arg_data, base, base + 2) \notin seen
                 /\ Exact(base + 4 + 2 * HexToInt(Slice(arg_data, base + 2, base + 4)),
                          count - 1, seen \cup {Slice(arg_data, base, base + 2)})
        WellFormed ==
            /\ n = 2 * HexToInt(arg_length)
            /\ is_hex(arg_data, 0)
            /\ n >= 24
            /\ Exact(24, HexToInt(Slice(arg_data, 22, 24)), {})
    IN  WellFormed =>
            /\ result.done => result.frame.valid
            /\ result.encoded => result.data = arg_data

\* a payload with one property of two bytes has been decoded and encoded
\* back to itself
C11_Witness ==
    /\ result.encoded
    /\ result.data = arg_data
    /\ Len(result.frame.properties) = 1
    /\ Len(result.frame.properties[1][2]) = 4

\* C12 as stated: in a frame that decode returns the property count equals
\* the number of properties held, and each property of the payload has a
\* value of as many bytes as its length byte declares
C12_Original ==
    LET n == Len(arg_data)
        RECURSIVE Declared(_, _)
        Declared(base, count) ==
            IF count = 0 THEN TRUE
            ELSE LET pdc == HexToInt(Slice(arg_data, base + 2, base + 4))
                 IN  /\ Len(Slice(arg_data, base + 4, base + 4 + 2 * pdc)) = 2 * pdc
                     /\ Declared(base + 4 + 2 * pdc, count - 1)
    IN  (result.done /\ result.frame.valid) =>
            /\ HexToInt(result.frame.opc) = Len(result.frame.properties)
            /\ Declared(24, HexToInt(result.frame.opc))

\* C13: the frame cmd_get_property returns has EHD 1081, SEOJ 05FF01, DEOJ
\* 028801, ESV 62, a property count equal to the number of codes asked for,
\* and one property with an empty value for each code asked for, in the
\* order of the list; encoded, each property is its code followed by 00
C13_PropertyRequest ==
    LET digit == <<"0", "1", "2", "3", "4", "5", "6", "7", "8", "9">>
        RECURSIVE Once(_, _)
        Once(codes, seen) ==
            IF codes = <<>> THEN <<>>
            ELSE IF Head(codes) \in seen THEN Once(Tail(codes), seen)
            ELSE <<Head(codes)>> \o Once(Tail(codes), seen \cup {Head(codes)})
        asked == Once(arg_data, {})
        RECURSIVE Wire(_)
        Wire(codes) ==
            IF codes = <<>> THEN <<>>
            ELSE Head(codes) \o <<"0", "0">> \o Wire(Tail(codes))
    IN  /\ result.done =>
            /\ result.frame.valid
            /\ result.frame.ehd = <<"1", "0", "8", "1">>
            /\ result.frame.seoj = <<"0", "5", "F", "F", "0", "1">>
            /\ result.frame.deoj = <<"0", "2", "8", "8", "0", "1">>
            /\ result.frame.esv = <<"6", "2">>
            /\ result.frame.opc = <<"0", digit[Len(arg_data) + 1]>>
            /\ result.frame.properties = [i \in 1..Len(asked) |-> <<asked[i], <<>>>>]
        /\ result.encoded =>
            SubSeq(result.data, 23, Len(result.data))
                = <<"0", digit[Len(arg_data) + 1]>> \o Wire(asked)

\* the request for E7 and E8 has been built and encoded
C13_Witness ==
    /\ arg_data = <<S_E7, S_E8>>
    /\ result.encoded
    /\ result.frame.opc = <<"0", "2">>
    /\ result.frame.properties = <<<<S_E7, <<>>>>, <<S_E8, <<>>>>>>
    /\ SubSeq(result.data, 21, Len(result.data))
           = <<"6", "2", "0", "2", "E", "7", "0", "0", "E", "8", "0", "0">>

-----------------------------------------------------------------------------
(* Properties of the driver *)

\* C14: a line is classified ERXUDP exactly when its first field is ERXUDP,
\* it has 9 fields (10 for a dual-stack driver), SENDER and DEST are 8
\* groups of 4 hex digits, RPORT and LPORT 4 hex digits, SENDERLLA 16 hex
\* digits, SECURED (and SIDE, dual-stack) 1 hex digit, DATALEN 4 hex digits
\* and DATA hex digits; it then carries DATALEN and DATA; any other line
\* whose first field is ERXUDP is classified INVALID_ERXUDP and carries the
\* list of its fields
C14_ErxudpClassification ==
    LET f == arg_data
        n == IF arg_type = DSS THEN 10 ELSE 9
        hexdigit == {"0", "1", "2", "3", "4", "5", "6", "7", "8", "9",
                     "A", "B", "C", "D", "E", "F"}
        HexAny(tok) == \A i \in 1..Len(tok) : tok[i] \in hexdigit
        Hex(tok, k) == Len(tok) = k /\ HexAny(tok)
        Addr(tok) ==
            /\ Len(tok) = 39
            /\ \A i \in 1..39 : IF i % 5 = 0 THEN tok[i] = ":" ELSE tok[i] \in hexdigit
        Valid ==
            /\ f[1] = S_ERXUDP
            /\ Len(f) = n
            /\ Addr(f[2]) /\ Addr(f[3])
            /\ Hex(f[4], 4) /\ Hex(f[5], 4)
            /\ Hex(f[6], 16)
            /\ Hex(f[7], 1)
            /\ arg_type = DSS => Hex(f[8], 1)
            /\ Hex(f[n - 1], 4)
            /\ HexAny(f[n])
    IN  result.done =>
            /\ result.event.NAME = "ERXUDP" <=> Valid
            /\ result.event.NAME = "ERXUDP" =>
                   (result.event.DATALEN = f[n - 1] /\ result.event.DATA = f[n])
            /\ (f[1] = S_ERXUDP /\ ~Valid) =>
                   (result.event.NAME = "INVALID_ERXUDP" /\ result.event.LIST = f)

\* the well-formed line of 9 fields has been classified ERXUDP by a
\* single-stack driver
C14_Witness ==
    /\ arg_type = IPS
    /\ arg_data = ErxudpFields
    /\ result.done
    /\ result.event.NAME = "ERXUDP"

\* C15 as stated: sendto returns True exactly when a line beginning with OK
\* is read before the 21st read that times out
C15_Original ==
    (result.done /\ result.op = "sendto") =>
        LET s == arg_data
            Empties(i) == Cardinality({j \in 1..i : s[j] = <<>>})
            IsOk(i) == Len(s[i]) >= 2 /\ s[i][1] = "O" /\ s[i][2] = "K"
        IN  result.ok <=> \E i \in 1..Len(s) : IsOk(i) /\ Empties(i) <= _TIMEOUT_MAX

\* C15: sendto stops at the first line beginning with OK, at the first line
\* beginning with EVENT 21 or OK that holds a byte above 0x7F, or at the 21st
\* read that times out, whichever comes first; it returns True exactly when
\* it stops at an OK line and a line beginning with EVENT 21 was read before
\* it, raises when it stops at a line with a byte above 0x7F, and returns
\* False otherwise (an OK with no EVENT 21 before it, or the timeout)
C15_SendOutcome ==
    (result.done /\ result.op = "sendto") =>
        LET s == arg_data
            Empties(i) == Cardinality({j \in 1..i : s[j] = <<>>})
            IsOk(i) == Len(s[i]) >= 2 /\ s[i][1] = "O" /\ s[i][2] = "K"
            IsEv21(i) == /\ Len(s[i]) >= 8
                         /\ SubSeq(s[i], 1, 8) = <<"E", "V", "E", "N", "T", " ", "2", "1">>
            High(i) == \E k \in 1..Len(s[i]) : s[i][k] \in HighBytes
            Stops(i) == \/ IsOk(i)
                        \/ IsEv21(i) /\ High(i)
                        \/ s[i] = <<>> /\ Empties(i) = _TIMEOUT_MAX + 1
            First(i) == Stops(i) /\ \A j \in 1..(i - 1) : ~Stops(j)
        IN  /\ result.ok <=>
                   \E i \in 1..Len(s) :
                       /\ First(i) /\ IsOk(i) /\ ~High(i)
                       /\ \E j \in 1..(i - 1) : IsEv21(j)
            /\ result.raised <=> \E i \in 1..Len(s) : First(i) /\ High(i)

\* sendto returned True after EVENT 21 and OK, with reads that timed out between
C15_Witness ==
    /\ result.done /\ result.op = "sendto" /\ result.ok
    /\ Len(arg_data) > 2
    /\ arg_data[1] = L_EV21
    /\ arg_data[2] = <<>>

\* C16: scan() writes the active-scan command exactly when the cache gives
\* no result (no file, a file of an hour or more, an unreadable file or one
\* without Pan ID, Channel and Addr); on a cache hit it holds the cached
\* result; when it returns True the result it holds has Pan ID, Channel and
\* Addr, and when it returns False the result it holds has no entry
C16_ScanCacheFirst ==
    [][ (~result.done /\ result'.done /\ result'.op = "scan") =>
            LET hit == /\ cachefile.exists
                       /\ clock - cachefile.mtime < 3600
                       /\ cachefile.readable
                       /\ {K_PANID, K_CHANNEL, K_ADDR} \subseteq cachefile.keys
            IN  /\ result'.active <=> ~hit
                /\ hit /\ ~result'.raised => scanresult'.keys = cachefile.keys
                /\ result'.ok => {K_PANID, K_CHANNEL, K_ADDR} \subseteq scanresult'.keys
                /\ ~result'.ok /\ ~result'.raised => scanresult'.keys = {} ]_vars

\* scan() found a file that is one hour old, scanned, and returned True
\* with the result it wrote to the file
C16_Witness ==
    /\ result.done /\ result.op = "scan" /\ result.ok /\ result.active
    /\ cachefile.exists /\ cachefile.mtime = clock
    /\ {K_PANID, K_CHANNEL, K_ADDR} \subseteq scanresult.keys

\* C17 as stated: _scancache returns the cached result exactly when the file
\* exists, is less than 3600 seconds old and has the three keys, returns
\* empty otherwise without raising, and a file that is 3600 seconds old or
\* more, or lacks a key, is deleted
C17_Original ==
    [][ (~result.done /\ result'.done /\ result'.op = "_scancache") =>
            LET f == cachefile
                fresh == f.exists /\ clock - f.mtime < 3600
                complete == f.readable /\ {K_PANID, K_CHANNEL, K_ADDR} \subseteq f.keys
            IN  /\ scanresult' = IF fresh /\ complete
                                 THEN [isdict |-> TRUE, keys |-> f.keys]
                                 ELSE [isdict |-> TRUE, keys |-> {}]
                /\ ~result'.raised
                /\ f.exists /\ (~fresh \/ (f.readable /\ ~complete)) => ~cachefile'.exists ]_vars

\* C17: _scancache returns the cached result exactly when the file exists,
\* is less than 3600 seconds old, can be read and has the three keys, and
\* returns the empty result otherwise without raising; it deletes the file
\* only when the file is less than 3600 seconds old, can be read and lacks
\* a key, and leaves every other file (one of 3600 seconds or more, or one
\* that cannot be read) as it is
C17_CacheLoad ==
    [][ (~result.done /\ result'.done /\ result'.op = "_scancache") =>
            LET f == cachefile
                fresh == f.exists /\ clock - f.mtime < 3600
                complete == f.readable /\ {K_PANID, K_CHANNEL, K_ADDR} \subseteq f.keys
            IN  /\ scanresult' = IF fresh /\ complete
                                 THEN [isdict |-> TRUE, keys |-> f.keys]
                                 ELSE [isdict |-> TRUE, keys |-> {}]
                /\ ~result'.raised
                /\ cachefile' = IF fresh /\ f.readable /\ ~complete
                                THEN [exists |-> FALSE, mtime |-> 0, readable |-> FALSE,
                                      keys |-> {}]
                                ELSE f ]_vars

\* _scancache returned the result of a file one second short of an hour old
C17_Witness ==
    /\ result.done /\ result.op = "_scancache"
    /\ scanresult.keys # {}
    /\ cachefile.exists /\ clock - cachefile.mtime = 3599

\* C18 as stated: join returns, and returns True exactly when a line of
\* EVENT 25 is read before any line of EVENT 24 and before the 21st read
\* that times out; no other line changes the outcome or counts as such a read
C18_Original ==
    (result.done /\ result.op = "join") =>
        LET s == arg_data
            Empties(i) == Cardinality({j \in 1..i : s[j] = <<>>})
            IsEvent(i, n) == /\ Len(s[i]) >= 8
                             /\ SubSeq(s[i], 1, 8) = <<"E", "V", "E", "N", "T", " ", "2", n>>
            Stops(i) == \/ IsEvent(i, "5")
                        \/ IsEvent(i, "4")
                        \/ s[i] = <<>> /\ Empties(i) = _TIMEOUT_MAX + 1
            First(i) == Stops(i) /\ \A j \in 1..(i - 1) : ~Stops(j)
        IN  /\ ~result.raised
            /\ result.ok <=> \E i \in 1..Len(s) : First(i) /\ IsEvent(i, "5")

-----------------------------------------------------------------------------
(* Properties of the value conversions *)

\* C19: for a string of N = 2, 4 or 8 uppercase hex digits with unsigned
\* value v, hex_to_signed_int returns v when v < 2^(4N-1) and v - 2^(4N)
\* otherwise.  The digits are weighed here from the last one up; for N = 8,
\* where v and 2^32 lie outside the 32-bit integers, v - 2^32 is written as
\* (v - 2^31) - 2^31, v - 2^31 being the string with its top bit cleared
C19_TwosComplement ==
    (result.done /\ result.op = "hex_to_signed_int") =>
        LET N == Len(arg_data)
            Digit(c) == CHOOSE k \in 0..15 :
                            <<"0","1","2","3","4","5","6","7","8","9",
                              "A","B","C","D","E","F">>[k + 1] = c
            RECURSIVE Pow2(_), Weigh(_, _)
            Pow2(k) == IF k = 0 THEN 1 ELSE 2 * Pow2(k - 1)
            \* the unsigned value of the digits i..N, the first counted as top
            Weigh(i, top) ==
                IF i > N THEN 0
                ELSE (IF i = 1 THEN top ELSE Digit(arg_data[i])) * Pow2(4 * (N - i))
                     + Weigh(i + 1, top)
            first == Digit(arg_data[1])
        IN  IF N < 8
            THEN LET v == Weigh(1, first)
                 IN  result.value = IF v < Pow2(4 * N - 1) THEN v ELSE v - Pow2(4 * N)
            ELSE IF first < 8
                 THEN result.value = Weigh(1, first)
                 ELSE result.value = (Weigh(1, first - 8) - Pow2(30)) - Pow2(30)

\* a 32-bit field with the top bit set has been converted to a negative value
C19_Witness ==
    /\ result.done /\ result.op = "hex_to_signed_int"
    /\ arg_data = <<"F", "F", "F", "F", "F", "F", "F", "F">>
    /\ result.value = 0 - 1

\* C20 as stated: _accept on a response with unit (E1) properties does not
\* raise; the stored unit becomes the multiplier of the last E1 code, 0.1
\* (exponent -1) for a code outside 00..04, 0A..0D; and a record with the
\* raw code is put for every E1 property
C20_Original ==
    (result.done /\ result.op = "_accept") =>
        LET ps == arg_data
            E1s == {i \in 1..Len(ps) : ps[i][1] = <<"E", "1">>}
            Code(i) == HexToInt(ps[i][2])
            Exponent(c) == CASE c = 0 -> 0 [] c = 1 -> -1 [] c = 2 -> -2
                             [] c = 3 -> -3 [] c = 4 -> -4 [] c = 10 -> 1
                             [] c = 11 -> 2 [] c = 12 -> 3 [] c = 13 -> 4
                             [] OTHER -> -1
        IN  E1s # {} =>
                /\ ~result.raised
                /\ \A i \in E1s : (\A j \in E1s : j <= i) => unit = Exponent(Code(i))
                /\ \A i \in E1s :
                       \E k \in 1..Len(result.records) :
                           result.records[k] = [sensor |-> <<"E", "1">>,
                                                value |-> [m |-> Code(i), e |-> 0]]

-----------------------------------------------------------------------------
(* Properties of the session: calibration, stopping, queue, counters *)

\* C21 as stated: whenever the state is INIT, OPEN, SETUP or SCAN the
\* calibration has the values of __init__ (coefficient 1, unit 0.1, 6 digits)
C21_Original ==
    state \in {_STATE_INIT, _STATE_OPEN, _STATE_SETUP, _STATE_SCAN} =>
        coefficient = 1 /\ unit = -1 /\ effective_digits = 6

\* C21: the calibration is changed only by an iteration of the state JOIN
\* that accepted a frame and stayed in JOIN; every other step, the watchdog
\* reset and the exhaustion of the scan and join retries included, leaves
\* the values learned so far as they are
C21_CalibrationKept ==
    [][ (coefficient' # coefficient \/ unit' # unit
             \/ effective_digits' # effective_digits) =>
            /\ state = _STATE_JOIN
            /\ state' = _STATE_JOIN
            /\ \E k \in 1..Len(hist'.ops) : hist'.ops[k] = "_accept" ]_vars

\* the watchdog has put the session back to INIT with the coefficient 10
\* learned from a D3 response
C21_Witness ==
    /\ state = _STATE_INIT
    /\ hist.last = "watchdog"
    /\ coefficient = 10

\* C22 as stated: once the stop event is set, run() leaves its loop, and
\* term() and close() of the driver are carried out: the thread ends with
\* the driver terminated and closed
C22_Original == stopEvent ~> (pc = "stopped" /\ ~serOpen)

\* C23 as stated, its first half: while the stop event is unset no state is
\* a dead end, run() is in its loop and goes on to the next iteration (and
\* so can reach JOIN again once the driver operations succeed)
C23_Original == ~stopEvent => pc = "loop"

\* C24: the queue never holds more records than its capacity; while a put
\* waits on the full queue the only steps are the consumer taking the oldest
\* record and the stop event being set, so run() does nothing else; and the
\* records put so far and not yet taken, in the order of their puts (those
\* in the queue, then those of the put under way), change only by the
\* oldest being taken or by new ones being added at the end: none is
\* dropped or overtaken
C24_BoundedQueue ==
    /\ [](Len(record_que) <= QueueSize)
    /\ [][ LET waiting == blocked # <<>> /\ Len(record_que) = QueueSize
               pending == record_que \o blocked
               pending2 == record_que' \o blocked'
           IN  /\ waiting =>
                     \/ record_que' = Tail(record_que) /\ blocked' = blocked
                     \/ record_que' = record_que /\ blocked' = blocked
                            /\ pc' = pc /\ state' = state /\ hist' = hist
               /\ \/ pending # <<>> /\ pending2 = Tail(pending)
                  \/ /\ Len(pending2) >= Len(pending)
                     /\ SubSeq(pending2, 1, Len(pending)) = pending ]_vars

\* a put of run() waits on the full queue
C24_Witness ==
    /\ blocked # <<>>
    /\ Len(record_que) = QueueSize
    /\ pc = "loop"

-----------------------------------------------------------------------------
(* Properties of the driver: the line wait *)

-----------------------------------------------------------------------------
(* Properties of the transaction id *)

\* C26: the frames built by cmd_get_property all carry the transaction id
\* 0000, whatever codes they ask for and however many were built before,
\* and the class counter stays at 0
C26_ConstantTid ==
    /\ result.value = 0
    /\ \A k \in 1..Len(result.data) : result.data[k] = <<"0", "0", "0", "0">>
    /\ result.done => result.frame.tid = <<"0", "0", "0", "0">>

\* two frames have been built, the second for other codes than the first
C26_Witness ==
    /\ Len(result.data) = 2
    /\ result.data[1] = result.data[2]
    /\ Len(arg_data) = 2
    /\ result.frame.opc = <<"0", "2">>

-----------------------------------------------------------------------------
(* Properties of the interpretation of responses *)

\* C27: in a call of _accept that returns, the record of a cumulative
\* energy property (E0, E3, EA, EB) carries raw value x coefficient x unit,
\* the coefficient being that of the last D3 before the property in the
\* same response, or else the one the session held before the call, and the
\* unit likewise that of the last E1 before it, or else the one held before;
\* a D3 or E1 after the property does not enter.  (Every property of these
\* responses puts one record, so the record of property i is record i.)
C27_CumulativeEnergy ==
    [][ (result'.op = "_accept" /\ result'.value # result.value /\ ~result'.raised) =>
            LET ps == arg_data'
                Exponent(c) == CASE c = 0 -> 0 [] c = 1 -> -1 [] c = 2 -> -2
                                 [] c = 3 -> -3 [] c = 4 -> -4 [] c = 10 -> 1
                                 [] c = 11 -> 2 [] c = 12 -> 3 [] c = 13 -> 4
                Before(i, code) == {j \in 1..(i - 1) : ps[j][1] = code}
                Last(S) == CHOOSE j \in S : \A k \in S : k <= j
                Coef(i) == IF Before(i, <<"D", "3">>) = {} THEN coefficient
                           ELSE HexToInt(ps[Last(Before(i, <<"D", "3">>))][2])
                Unit(i) == IF Before(i, <<"E", "1">>) = {} THEN unit
                           ELSE Exponent(HexToInt(ps[Last(Before(i, <<"E", "1">>))][2]))
                Raw(i) == IF ps[i][1] \in {<<"E", "A">>, <<"E", "B">>}
                          THEN HexToInt(SubSeq(ps[i][2], 15, Len(ps[i][2])))
                          ELSE HexToInt(ps[i][2])
            IN  /\ Len(result'.records) = Len(ps)
                /\ \A i \in 1..Len(ps) :
                       ps[i][1] \in {<<"E", "0">>, <<"E", "3">>, <<"E", "A">>, <<"E", "B">>} =>
                           result'.records[i] =
                               [sensor |-> ps[i][1],
                                value |-> [m |-> Raw(i) * Coef(i), e |-> Unit(i)]]
                /\ coefficient' = Coef(Len(ps) + 1)
                /\ unit' = Unit(Len(ps) + 1) ]_vars

\* a response with the coefficient 10 before the reading 100: the record of
\* the reading carries 100 x 10 x 0.1
C27_Witness ==
    /\ result.done /\ result.op = "_accept" /\ ~result.raised
    /\ Len(arg_data) = 2
    /\ arg_data[1][1] = <<"D", "3">>
    /\ arg_data[2][1] = <<"E", "0">>
    /\ unit = -1
    /\ result.records[2] = [sensor |-> <<"E", "0">>, value |-> [m |-> 1000, e |-> -1]]

\* C28: an iteration of the state JOIN calls receive() once (never twice,
\* and once whenever it gets past its sends); self.lasttime_receive changes
\* only when receive() returned a frame, and is then the time of that
\* reading of the clock; a frame is returned for a response of any service
\* code, and none for a read that timed out, an EVENT line, another line, an
\* ERXUDP line that is not valid and a payload that does not decode.  An
\* iteration without a frame leaves the timestamp and both retry counters
\* as they are, and the state too unless the watchdog test that ends the
\* iteration finds more than 600 s since the timestamp
C28_ReceiveEffect ==
    /\ receive(IPS, <<L_ERXUDP_ESV52>>).frame.valid
    /\ \A s \in {<<>>, <<L_EV21>>, <<L_FAIL>>, <<L_ERXUDP_SHORT>>, <<L_ERXUDP_BADLEN>>} :
           ~receive(IPS, s).frame.valid /\ ~receive(IPS, s).raised
    /\ [][ (/\ state = _STATE_JOIN /\ pc = "loop" /\ ~stopEvent /\ blocked = <<>>
            /\ record_que' = record_que /\ stopEvent' = stopEvent) =>
               LET ops == hist'.ops
                   receives == {k \in 1..Len(ops) : ops[k] = "receive"}
                   got == \E k \in 1..Len(ops) : ops[k] = "_accept"
               IN  /\ Cardinality(receives) <= 1
                   /\ pc' = "loop" => Cardinality(receives) = 1
                   /\ got => receives # {} /\ lasttime_receive' = clock'
                   /\ scan_retry' = scan_retry /\ join_retry' = join_retry
                   /\ ~got =>
                        /\ lasttime_receive' = lasttime_receive
                        /\ state' # state =>
                               /\ state' = _STATE_INIT
                               /\ hist'.now - lasttime_receive > 600 ]_vars

\* an iteration of JOIN has read a line that gave no frame, 600 s after the
\* last frame: timestamp and state are as before
C28_Witness ==
    /\ state = _STATE_JOIN
    /\ hist.last = "steady"
    /\ hist.ops = <<"receive">>
    /\ hist.now - lasttime_receive = 600

\* C29: between iterations of run() both retry counters are in 0..5,
\* scan_retry is not zero only in the state SETUP and join_retry only in
\* the state SCAN; the watchdog reset from JOIN to INIT finds both at zero
\* and leaves them at zero
C29_RetryCounters ==
    /\ [](/\ scan_retry \in 0..5
          /\ join_retry \in 0..5
          /\ scan_retry # 0 => state = _STATE_SETUP
          /\ join_retry # 0 => state = _STATE_SCAN)
    /\ [][ (state = _STATE_JOIN /\ state' = _STATE_INIT) =>
               /\ scan_retry = 0 /\ join_retry = 0
               /\ scan_retry' = 0 /\ join_retry' = 0 ]_vars

\* the watchdog has reset the session from JOIN to INIT, for the first time
\* since the join: no counter shows anything
C29_Witness ==
    /\ hist.last = "watchdog"
    /\ state = _STATE_INIT
    /\ scan_retry = 0 /\ join_retry = 0
    /\ hist.wd_count = 1

\* ---------------------------------------------------------------------
\* Properties of the session: the transport under the driver operations
\* ---------------------------------------------------------------------

\* C30: every driver operation other than open (reset, setup, scan, join,
\* send, receive, terminate, close) is invoked by the session only while the
\* transport is open, the terminate and close at the end of run() included,
\* in whatever state the session is when the stop signal ends the loop: a
\* step of the session that calls one of these operations starts with the
\* serial port open
C30_Original ==
    [][ LET called == hist'.ops
        IN  (/\ hist' # hist
             /\ \E i \in 1..Len(called) : called[i] # "open")
            => serOpen ]_vars

\* ---------------------------------------------------------------------
\* Properties of the steady state: the polls and the lines of the device
\* ---------------------------------------------------------------------

\* C31: in JOIN the result of a poll send is ignored.  In every iteration of
\* the steady state each request is sent at most once, and only when it is
\* due by the timestamp it had; the timestamp of a request whose send
\* returned moves on by the same rule whether the send returned True or
\* False (so a failed request waits for its next interval), the other
\* requests keep theirs; no retry counter changes, and the state changes
\* only when the receive watchdog has expired
C31_SendResultIgnored ==
    [][ (state = _STATE_JOIN /\ pc = "loop" /\ ~stopEvent /\ hist' # hist) =>
        LET now == hist'.now
            sentNow(i) == hist'.sends[i] = hist.sends[i] + 1
            frames == Cardinality({k \in 1..Len(hist'.ops) : hist'.ops[k] = "sendto"})
        IN  /\ \A i \in 1..Len(requests) :
                  /\ hist'.sends[i] \in {hist.sends[i], hist.sends[i] + 1}
                  /\ i \in hist'.failed => sentNow(i)
                  /\ sentNow(i) =>
                        /\ now - requests[i].lasttime > requests[i].cycle
                        /\ requests'[i].lasttime =
                              IF requests[i].lasttime = 0 THEN now
                              ELSE requests[i].lasttime + requests[i].cycle
                  /\ ~sentNow(i) => requests'[i].lasttime = requests[i].lasttime
                  /\ requests'[i].cycle = requests[i].cycle
                  /\ requests'[i].epc = requests[i].epc
            /\ frames <= Len(requests)
            /\ scan_retry' = scan_retry
            /\ join_retry' = join_retry
            /\ state' \in {_STATE_JOIN, _STATE_INIT}
            /\ state' = _STATE_INIT => clock' - lasttime_receive' > WatchdogTimeout
      ]_vars

\* the second send of the 300 s request has just failed, one interval after
\* the first: the request waits for the next interval and the session is
\* still joined
C31_Witness ==
    /\ state = _STATE_JOIN
    /\ pc = "loop"
    /\ hist.last = "steady"
    /\ 2 \in hist.failed
    /\ hist.sends[2] = 2
    /\ requests[2].lasttime = hist.first_sent[2] + requests[2].cycle
    /\ scan_retry = 0 /\ join_retry = 0

\* C32: a datagram (ERXUDP) line the device emits while the driver waits in
\* a send is read and dropped there.  In every iteration of the steady
\* state the only line that can give output records or refresh
\* lasttime_receive is the one receive() reads, which is the first line
\* after those the sends of the iteration read (each send reads up to its
\* OK, or to the end when no OK comes); when that line is not a datagram
\* the iteration puts no record and leaves lasttime_receive alone, however
\* many datagrams the sends read, and none of the lines read is read again
C32_HalfDuplex ==
    [][ (state = _STATE_JOIN /\ pc = "loop" /\ ~stopEvent /\ hist' # hist) =>
        LET RECURSIVE AfterOk(_, _)
            AfterOk(s, k) ==
                IF k = 0 \/ s = <<>> THEN s
                ELSE IF Len(Head(s)) >= 2 /\ SubSeq(Head(s), 1, 2) = <<"O","K">>
                THEN AfterOk(Tail(s), k - 1)
                ELSE AfterOk(Tail(s), k)
            sends == Cardinality({k \in 1..Len(hist'.ops) : hist'.ops[k] = "sendto"})
            unread == AfterOk(arg_data, sends)
            line == IF unread = <<>> THEN <<>> ELSE Head(unread)
            datagram == Len(line) >= 6 /\ SubSeq(line, 1, 6) = <<"E","R","X","U","D","P">>
            after == IF unread = <<>> THEN <<>> ELSE Tail(unread)
        IN  /\ result'.records # <<>> => datagram
            /\ lasttime_receive' # lasttime_receive => datagram
            /\ Len(result'.records) <= 1
            /\ Len(arg_data') <= Len(after)
            /\ arg_data' = SubSeq(after, Len(after) - Len(arg_data') + 1, Len(after))
      ]_vars

\* a datagram arrived while a send was waiting for its OK and nothing came
\* afterwards: no record was put and the receive watchdog, not refreshed
\* since the join, has expired
C32_Witness ==
    /\ result.done
    /\ result.value >= 1
    /\ result.data = <<>>
    /\ result.records = <<>>
    /\ hist.last = "watchdog"
    /\ lasttime_receive = StartClock
    /\ state = _STATE_INIT

\* ---------------------------------------------------------------------
\* Properties of the consumer of the records
\* ---------------------------------------------------------------------

\* C33: InfluxDBUpdater.run writes a point only for a dequeued record whose
\* property code is E7 or E8, and the point carries the value of that
\* record; a record with any other code (E8R, E8T, E0, D3, ...) causes no
\* write
C33_Original ==
    [][ arg_data # <<>> =>
        LET record == Head(arg_data)
            written == SubSeq(result'.records, Len(result.records) + 1,
                              Len(result'.records))
        IN  IF record.sensor \in {S_E7, S_E8}
            THEN /\ Len(written) = 1
                 /\ written[1].value = record.value
            ELSE written = <<>>
      ]_vars
====
